---- MODULE Spec2Model ----
(***************************************************************************)
(* A model of the state machine, the per-frame simulation step and the     *)
(* power-up effect manager of src/game.js (the state-managed game, lines   *)
(* 1..4480 of the file).                                                   *)
(*                                                                         *)
(* The program's globals and the fields of its singleton objects are the   *)
(* variables.  Every function of the source is an operator from a world    *)
(* record (all the variables in one record) to a world record, so that a   *)
(* handler which calls other functions is the composition of their         *)
(* operators, in the order of the source.  An action applies one handler   *)
(* of the host (an animation frame, a key event, a click, a timer) to the  *)
(* current world and commits the result.                                   *)
(*                                                                         *)
(* Lengths are in units of 1/Unit pixel, so that an enemy moving at        *)
(* speed * 0.5 under Time Slow stays integral.  Times are milliseconds of  *)
(* Date.now(), counted from an origin that keeps them in TLC's integers.   *)
(***************************************************************************)
EXTENDS Integers, Sequences, FiniteSets, TLC

(***************************************************************************)
(* Program constants                                                       *)
(***************************************************************************)
Unit == 2
CANVAS_WIDTH == 800
CANVAS_HEIGHT == 600
PLAYER_SPEED == 5
BULLET_SPEED == 7
INITIAL_ENEMY_SPAWN_RATE == 2000
MIN_ENEMY_SPAWN_RATE == 800
SPAWN_RATE_DECREASE == 10
SHOOT_COOLDOWN == 200
EXPLOSION_PARTICLES == 15
PARTICLE_LIFE == 30
PLAYER_SIZE == 30
ENEMY_SIZE == 30
BULLET_WIDTH == 4
BULLET_HEIGHT == 10
POWERUP_SIZE == 20
POWERUP_SPEED == 2
INITIAL_LIVES == 3
KILL_SCORE == 10
EXPLOSION_RADIUS == 50
LASER_WIDTH == 8
LASER_DAMAGE == 1

StateNames ==
    {"IntroState", "CharacterSelectState", "GameState", "PauseState", "GameOverState"}

PowerUpTypes ==
    {"RAPID_FIRE", "MULTI_SHOT", "LASER_BEAM", "SHIELD_GENERATOR", "TIME_SLOW",
     "EXPLOSIVE_ROUNDS"}

POWER_UP_TYPES ==
    [RAPID_FIRE |-> 10000, MULTI_SHOT |-> 15000, LASER_BEAM |-> 8000,
     SHIELD_GENERATOR |-> 5000, TIME_SLOW |-> 12000, EXPLOSIVE_ROUNDS |-> 20000]

ThemeNames == <<"masked-rider", "ultraman", "godzilla">>

THEME_CONFIGS ==
    [t \in {"masked-rider", "ultraman", "godzilla"} |->
        CASE t = "masked-rider" -> <<"rider-1", "rider-2", "rider-3">>
          [] t = "ultraman"     -> <<"ultra-1", "ultra-2", "ultra-3">>
          [] t = "godzilla"     -> <<"kaiju-1", "kaiju-2", "kaiju-3">>]

(***************************************************************************)
(* Bounds of the model                                                     *)
(***************************************************************************)
ClockStart == 100000
MaxElapsed == 10000
MaxFrames == 3
MaxHeld == 2
MaxListeners == 2
MaxTimers == 1
MaxSessionFrames == 4
MaxHits == 6

(***************************************************************************)
(* State                                                                   *)
(***************************************************************************)
VARIABLES
    currentState,        \* GameStateManager.currentState ("null" or a state object)
    states,              \* GameStateManager.states: name -> registered state object
    keys,                \* the key-state map: the set of codes that are true
    introDisplay,        \* introScreen.style.display
    charSelectDisplay,   \* characterSelectScreen.style.display
    gameOverDisplay,     \* gameOverElement.style.display
    hudDisplay,          \* display of the score/lives containers
    scoreText,           \* scoreElement.textContent
    livesText,           \* livesElement.textContent
    finalScoreText,      \* finalScoreElement.textContent
    startListeners,      \* click listeners on startButton
    csListeners,         \* click listeners on each of back/confirm/prev/next
    pendingTimers,       \* fade-out timeouts of IntroState not fired yet
    selectedTheme,       \* CharacterSelectState.selectedTheme
    selectedSpaceship,   \* CharacterSelectState.selectedSpaceship ("null" or an id)
    currentThemeIndex,   \* CharacterSelectState.currentThemeIndex (0-based)
    storage,             \* sessionStorage: [theme, ship], "null" when absent
    previousState,       \* PauseState.previousState
    gameRunning, score, lives, lastEnemySpawn, enemySpawnRate, lastShot,
    player,              \* the player object
    bullets, enemies, particles, powerUps,
    pumInitialized,      \* powerUpManager exists and is initialized
    activePowerUps,      \* PowerUpManager.activePowerUps: type -> effect
    laserActive,         \* the global laserActive
    laserBeam,           \* "null", or the LaserBeam's active flag
    timeSlowMultiplier,  \* window.timeSlowMultiplier, in units of 1/Unit
    now,                 \* Date.now()
    canvas,              \* canvas.width and canvas.height, as the host reports them
    lifecycle,           \* exit/set/enter calls made by the last handler
    transitions,         \* <<from, to>> of every pointer swap of the last handler
    results,             \* return values of the last handler's setState calls
    removed,             \* enemies the last handler spliced out of the list, and why
    hits,                \* takeDamage calls of the last handler's bullet pass
    hookState,           \* per type: what the enable/disable hook calls add up to
    lastOp,              \* the handler that ran last, and its argument
    frames               \* simulation steps run so far

vars ==
    <<currentState, states, keys, introDisplay, charSelectDisplay, gameOverDisplay,
      hudDisplay, scoreText, livesText, finalScoreText, startListeners, csListeners,
      pendingTimers, selectedTheme, selectedSpaceship, currentThemeIndex, storage,
      previousState, gameRunning, score, lives, lastEnemySpawn, enemySpawnRate,
      lastShot, player, bullets, enemies, particles, powerUps, pumInitialized,
      activePowerUps, laserActive, laserBeam, timeSlowMultiplier, now, canvas, lifecycle,
      transitions, results, removed, hits, hookState, lastOp, frames>>

\* The current world, with the per-handler logs emptied: what a handler starts from.
W ==
    [currentState |-> currentState, states |-> states, keys |-> keys,
     introDisplay |-> introDisplay, charSelectDisplay |-> charSelectDisplay,
     gameOverDisplay |-> gameOverDisplay, hudDisplay |-> hudDisplay,
     scoreText |-> scoreText, livesText |-> livesText,
     finalScoreText |-> finalScoreText, startListeners |-> startListeners,
     csListeners |-> csListeners, pendingTimers |-> pendingTimers,
     selectedTheme |-> selectedTheme, selectedSpaceship |-> selectedSpaceship,
     currentThemeIndex |-> currentThemeIndex, storage |-> storage,
     previousState |-> previousState, gameRunning |-> gameRunning, score |-> score,
     lives |-> lives, lastEnemySpawn |-> lastEnemySpawn,
     enemySpawnRate |-> enemySpawnRate, lastShot |-> lastShot, player |-> player,
     bullets |-> bullets, enemies |-> enemies, particles |-> particles,
     powerUps |-> powerUps, pumInitialized |-> pumInitialized,
     activePowerUps |-> activePowerUps, laserActive |-> laserActive,
     laserBeam |-> laserBeam, timeSlowMultiplier |-> timeSlowMultiplier, now |-> now,
     canvas |-> canvas,
     lifecycle |-> <<>>, transitions |-> <<>>, results |-> <<>>, removed |-> <<>>,
     hits |-> <<>>,
     hookState |-> [t \in DOMAIN hookState |-> [hookState[t] EXCEPT !.calls = 0]],
     lastOp |-> lastOp, frames |-> frames]

\* The listener and timer counts grow without bound in the program; the model
\* follows a handler only while they stay within the bounds.
WithinBounds(w) ==
    /\ w.startListeners <= MaxListeners
    /\ w.csListeners <= MaxListeners
    /\ w.pendingTimers <= MaxTimers

Commit(w) ==
    /\ WithinBounds(w)
    /\ currentState' = w.currentState
    /\ states' = w.states
    /\ keys' = w.keys
    /\ introDisplay' = w.introDisplay
    /\ charSelectDisplay' = w.charSelectDisplay
    /\ gameOverDisplay' = w.gameOverDisplay
    /\ hudDisplay' = w.hudDisplay
    /\ scoreText' = w.scoreText
    /\ livesText' = w.livesText
    /\ finalScoreText' = w.finalScoreText
    /\ startListeners' = w.startListeners
    /\ csListeners' = w.csListeners
    /\ pendingTimers' = w.pendingTimers
    /\ selectedTheme' = w.selectedTheme
    /\ selectedSpaceship' = w.selectedSpaceship
    /\ currentThemeIndex' = w.currentThemeIndex
    /\ storage' = w.storage
    /\ previousState' = w.previousState
    /\ gameRunning' = w.gameRunning
    /\ score' = w.score
    /\ lives' = w.lives
    /\ lastEnemySpawn' = w.lastEnemySpawn
    /\ enemySpawnRate' = w.enemySpawnRate
    /\ lastShot' = w.lastShot
    /\ player' = w.player
    /\ bullets' = w.bullets
    /\ enemies' = w.enemies
    /\ particles' = w.particles
    /\ powerUps' = w.powerUps
    /\ pumInitialized' = w.pumInitialized
    /\ activePowerUps' = w.activePowerUps
    /\ laserActive' = w.laserActive
    /\ laserBeam' = w.laserBeam
    /\ timeSlowMultiplier' = w.timeSlowMultiplier
    /\ now' = w.now
    /\ canvas' = w.canvas
    /\ lifecycle' = w.lifecycle
    /\ transitions' = w.transitions
    /\ results' = w.results
    /\ removed' = w.removed
    /\ hits' = w.hits
    /\ hookState' = w.hookState
    /\ lastOp' = w.lastOp
    /\ frames' = w.frames

Log(w, op, st) ==
    [w EXCEPT !.lifecycle = Append(@, [op |-> op, st |-> st])]

(***************************************************************************)
(* The player object and its reset()                                       *)
(***************************************************************************)
PlayerDefaultX == (CANVAS_WIDTH \div 2 - 15) * Unit
PlayerDefaultY == (CANVAS_HEIGHT - 50) * Unit
NormalSpeed == Unit              \* timeSlowMultiplier 1.0
SlowSpeed == Unit \div 2         \* timeSlowMultiplier 0.5

PlayerFlags ==
    {"rapidFireActive", "multiShotActive", "laserBeamActive", "shieldActive",
     "invincible", "timeSlowActive", "explosiveRoundsActive"}

InitialPlayer ==
    [x |-> PlayerDefaultX, y |-> PlayerDefaultY,
     rapidFireActive |-> FALSE, multiShotActive |-> FALSE, laserBeamActive |-> FALSE,
     shieldActive |-> FALSE, invincible |-> FALSE, timeSlowActive |-> FALSE,
     explosiveRoundsActive |-> FALSE]

PlayerReset(w) ==
    [w EXCEPT !.player = InitialPlayer, !.timeSlowMultiplier = NormalSpeed]

(***************************************************************************)
(* PowerUpManager                                                          *)
(***************************************************************************)
TypeOrder ==
    <<"RAPID_FIRE", "MULTI_SHOT", "LASER_BEAM", "SHIELD_GENERATOR", "TIME_SLOW",
      "EXPLOSIVE_ROUNDS">>

EmptyTable == [t \in {} |-> [startTime |-> 0, endTime |-> 0]]

IsPowerUpActive(w, type) == type \in DOMAIN w.activePowerUps

\* Names that POWER_UP_TYPES, an object literal, inherits from Object.prototype:
\* POWER_UP_TYPES[name] is then a function, which is truthy and has no duration.
ObjectPrototypeNames == {"constructor", "toString"}

\* NaN, the sum of a number and undefined; every comparison with it is false
NotANumber == -1

\* POWER_UP_TYPES[type] is truthy
HasTypeConfig(type) == type \in PowerUpTypes \cup ObjectPrototypeNames

\* typeConfig.duration: of an inherited function undefined, NaN in every sum
DurationOf(type) ==
    IF type \in PowerUpTypes THEN POWER_UP_TYPES[type] ELSE NotANumber

Plus(a, b) == IF a = NotANumber \/ b = NotANumber THEN NotANumber ELSE a + b

\* What the calls of one type's hooks add up to: an enable when off turns it on,
\* a disable when on turns it off, any other call is kept as an error.  calls
\* counts the hook calls of the type made by the handler that ran last.
HookStep(h, activate) ==
    [st |-> IF activate
            THEN (IF h.st = "off" THEN "on" ELSE "error")
            ELSE (IF h.st = "on" THEN "off" ELSE "error"),
     calls |-> h.calls + 1]

LaserDeactivated(lb) == IF lb = "null" THEN "null" ELSE "inactive"

ApplyPowerUpEffect(w, type, activate) ==
    IF type \notin PowerUpTypes THEN w
    ELSE
    LET h == [w EXCEPT !.hookState[type] = HookStep(@, activate)] IN
    CASE type = "RAPID_FIRE" ->
            [h EXCEPT !.player.rapidFireActive = activate]
      [] type = "MULTI_SHOT" ->
            [h EXCEPT !.player.multiShotActive = activate]
      [] type = "LASER_BEAM" ->
            IF activate
            THEN [h EXCEPT !.laserBeam = "active", !.laserActive = TRUE,
                           !.player.laserBeamActive = TRUE]
            ELSE [h EXCEPT !.laserBeam = LaserDeactivated(@), !.laserActive = FALSE,
                           !.player.laserBeamActive = FALSE]
      [] type = "SHIELD_GENERATOR" ->
            [h EXCEPT !.player.shieldActive = activate,
                      !.player.invincible = activate]
      [] type = "TIME_SLOW" ->
            [h EXCEPT !.timeSlowMultiplier = IF activate THEN SlowSpeed ELSE NormalSpeed,
                      !.player.timeSlowActive = activate]
      [] type = "EXPLOSIVE_ROUNDS" ->
            [h EXCEPT !.player.explosiveRoundsActive = activate]

Returned(w, fn, ok) ==
    [w EXCEPT !.results = Append(@, [fn |-> fn, ok |-> ok])]

TablePut(table, type, effect) ==
    [t \in (DOMAIN table) \cup {type} |-> IF t = type THEN effect ELSE table[t]]

TableDelete(table, type) ==
    [t \in (DOMAIN table) \ {type} |-> table[t]]

\* a refresh that stacks: the new duration is added to what was left
RefreshedEndTimeStacked(effect, nowMs, duration) == effect.endTime + duration

\* existingEffect.endTime = now + typeConfig.duration
RefreshedEndTime(effect, nowMs, duration) == Plus(nowMs, duration)

\* an addPowerUp that applies the effect on a refresh as well
AddPowerUpReapplied(w, type) ==
    IF type \notin PowerUpTypes
    THEN Returned(w, "addPowerUp", FALSE)
    ELSE
    LET duration == POWER_UP_TYPES[type]
        put == [w EXCEPT !.activePowerUps =
                   TablePut(@, type,
                            [startTime |-> IF IsPowerUpActive(w, type)
                                           THEN w.activePowerUps[type].startTime
                                           ELSE w.now,
                             endTime |-> w.now + duration])]
    IN  Returned(ApplyPowerUpEffect(put, type, TRUE), "addPowerUp", TRUE)

AddPowerUp(w, type) ==
    IF ~HasTypeConfig(type)
    THEN Returned(w, "addPowerUp", FALSE)
    ELSE
    LET duration == DurationOf(type) IN
    IF IsPowerUpActive(w, type)
    THEN Returned(
            [w EXCEPT !.activePowerUps[type].endTime =
                          RefreshedEndTime(w.activePowerUps[type], w.now, duration)],
            "addPowerUp", TRUE)
    ELSE Returned(
            ApplyPowerUpEffect(
                [w EXCEPT !.activePowerUps =
                    TablePut(@, type, [startTime |-> w.now,
                                       endTime |-> Plus(w.now, duration)])],
                type, TRUE),
            "addPowerUp", TRUE)

\* a removePowerUp that deletes the entry and leaves the effect on
RemovePowerUpTableOnly(w, type) ==
    IF ~IsPowerUpActive(w, type)
    THEN Returned(w, "removePowerUp", FALSE)
    ELSE Returned([w EXCEPT !.activePowerUps = TableDelete(@, type)],
                  "removePowerUp", TRUE)

RemovePowerUp(w, type) ==
    IF ~IsPowerUpActive(w, type)
    THEN Returned(w, "removePowerUp", FALSE)
    ELSE LET off == ApplyPowerUpEffect(w, type, FALSE) IN
         Returned([off EXCEPT !.activePowerUps = TableDelete(@, type)],
                  "removePowerUp", TRUE)

\* an expiry test that lets an effect live through the instant of its end time
ExpiredLate(effect, nowMs) == effect.endTime # NotANumber /\ nowMs > effect.endTime

Expired(effect, nowMs) == effect.endTime # NotANumber /\ nowMs >= effect.endTime

RECURSIVE RemoveExpired(_, _, _)
RemoveExpired(w, expiredTypes, i) ==
    IF i > Len(TypeOrder) THEN w
    ELSE IF TypeOrder[i] \in expiredTypes
         THEN RemoveExpired(RemovePowerUp(w, TypeOrder[i]), expiredTypes, i + 1)
         ELSE RemoveExpired(w, expiredTypes, i + 1)

\* PowerUpManager.updatePowerUps.  The hooks of different types write different
\* fields, so the order in which the expired types are removed does not matter.
ManagerUpdatePowerUps(w) ==
    LET expiredTypes ==
            {t \in DOMAIN w.activePowerUps : Expired(w.activePowerUps[t], w.now)}
    IN  RemoveExpired(w, expiredTypes, 1)

RECURSIVE DeactivateAll(_, _, _)
DeactivateAll(w, types, i) ==
    IF i > Len(TypeOrder) THEN w
    ELSE IF TypeOrder[i] \in types
         THEN DeactivateAll(ApplyPowerUpEffect(w, TypeOrder[i], FALSE), types, i + 1)
         ELSE DeactivateAll(w, types, i + 1)

\* a clearAllPowerUps that empties the table without deactivating the effects
ClearAllPowerUpsTableOnly(w) ==
    Returned(
        [w EXCEPT !.laserBeam = LaserDeactivated(@), !.laserActive = FALSE,
                  !.timeSlowMultiplier = NormalSpeed,
                  !.activePowerUps = EmptyTable],
        "clearAllPowerUps", TRUE)

ClearAllPowerUps(w) ==
    LET off == DeactivateAll(w, DOMAIN w.activePowerUps, 1) IN
    Returned(
        [off EXCEPT !.laserBeam = LaserDeactivated(@), !.laserActive = FALSE,
                    !.timeSlowMultiplier = NormalSpeed,
                    !.activePowerUps = EmptyTable],
        "clearAllPowerUps", TRUE)

(***************************************************************************)
(* Score and lives                                                         *)
(***************************************************************************)
UpdateScore(w, points) ==
    [w EXCEPT !.score = @ + points, !.scoreText = w.score + points]

UpdateLives(w, change) ==
    [w EXCEPT !.lives = @ + change, !.livesText = w.lives + change]

(***************************************************************************)
(* CharacterSelectState: selection and persistence                         *)
(***************************************************************************)
SeqToSet(s) == {s[i] : i \in 1..Len(s)}

ThemeExists(theme) == theme \in DOMAIN THEME_CONFIGS

ThemeIndexOf(theme) == (CHOOSE i \in 1..Len(ThemeNames) : ThemeNames[i] = theme) - 1

ShipExists(theme, ship) == ThemeExists(theme) /\ ship \in SeqToSet(THEME_CONFIGS[theme])

SelectSpaceship(w, spaceshipId) == [w EXCEPT !.selectedSpaceship = spaceshipId]

UpdateSpaceshipOptions(w) ==
    IF ~ThemeExists(w.selectedTheme) THEN w
    ELSE IF w.selectedSpaceship = "null" /\ Len(THEME_CONFIGS[w.selectedTheme]) > 0
         THEN SelectSpaceship(w, THEME_CONFIGS[w.selectedTheme][1])
         ELSE w

\* a selectTheme that keeps the selected ship whatever the new theme is
SelectThemeKeepsShip(w, themeName) ==
    UpdateSpaceshipOptions([w EXCEPT !.selectedTheme = themeName,
                                     !.currentThemeIndex = ThemeIndexOf(themeName)])

SelectTheme(w, themeName) ==
    LET w1 == [w EXCEPT !.selectedTheme = themeName]
        w2 == IF ThemeExists(themeName) /\ w1.selectedSpaceship # "null"
                 /\ ~ShipExists(themeName, w1.selectedSpaceship)
              THEN [w1 EXCEPT !.selectedSpaceship = "null"]
              ELSE w1
        w3 == [w2 EXCEPT !.currentThemeIndex = ThemeIndexOf(themeName)]
    IN  UpdateSpaceshipOptions(w3)

PreviousTheme(w) ==
    IF w.currentThemeIndex > 0
    THEN SelectTheme([w EXCEPT !.currentThemeIndex = @ - 1],
                     ThemeNames[w.currentThemeIndex])
    ELSE w

NextTheme(w) ==
    IF w.currentThemeIndex < Len(ThemeNames) - 1
    THEN SelectTheme([w EXCEPT !.currentThemeIndex = @ + 1],
                     ThemeNames[w.currentThemeIndex + 2])
    ELSE w

\* a loadSavedSelections that restores the theme and leaves the ship alone
LoadSavedSelectionsThemeOnly(w) ==
    IF w.storage.theme # "null" /\ ThemeExists(w.storage.theme)
    THEN [w EXCEPT !.selectedTheme = w.storage.theme,
                   !.currentThemeIndex = ThemeIndexOf(w.storage.theme)]
    ELSE w

LoadSavedSelections(w) ==
    LET w1 == IF w.storage.theme # "null" /\ ThemeExists(w.storage.theme)
              THEN [w EXCEPT !.selectedTheme = w.storage.theme,
                             !.currentThemeIndex = ThemeIndexOf(w.storage.theme)]
              ELSE w
    IN  IF w1.storage.ship # "null" /\ ShipExists(w1.selectedTheme, w1.storage.ship)
        THEN [w1 EXCEPT !.selectedSpaceship = w1.storage.ship]
        ELSE w1

SaveSelections(w) ==
    LET w1 == IF w.selectedTheme # "null"
              THEN [w EXCEPT !.storage.theme = w.selectedTheme] ELSE w
    IN  IF w1.selectedSpaceship # "null"
        THEN [w1 EXCEPT !.storage.ship = w1.selectedSpaceship] ELSE w1

(***************************************************************************)
(* enter() and exit() of the five states                                   *)
(***************************************************************************)
\* addEventListener('click', this.handleStartClick.bind(this))
IntroEnter(w) ==
    [w EXCEPT !.gameOverDisplay = "none", !.hudDisplay = "none",
              !.introDisplay = "flex", !.startListeners = @ + 1]

\* removeEventListener is given a fresh bound function, which is no listener of
\* the button: nothing is removed.
IntroExit(w) ==
    [w EXCEPT !.introDisplay = "none", !.hudDisplay = "flex"]

InitializeUI(w) == [w EXCEPT !.csListeners = @ + 1]

\* Each removeEventListener is given a fresh arrow function: nothing is removed.
CleanupUI(w) == w

CharacterSelectEnter(w) ==
    LET w1 == [w EXCEPT !.gameOverDisplay = "none", !.hudDisplay = "none",
                        !.charSelectDisplay = "flex"]
    IN  UpdateSpaceshipOptions(InitializeUI(LoadSavedSelections(w1)))

CharacterSelectExit(w) ==
    CleanupUI([w EXCEPT !.charSelectDisplay = "none", !.hudDisplay = "flex"])

\* an enter that keeps the session when the game is resumed from the pause
GameEnterResumed(w) ==
    IF w.previousState = "GameState" /\ w.lives > 0
    THEN [w EXCEPT !.gameRunning = TRUE, !.gameOverDisplay = "none"]
    ELSE LET w1 == PlayerReset(
                     [w EXCEPT !.gameRunning = TRUE, !.score = 0,
                               !.lives = INITIAL_LIVES, !.bullets = <<>>,
                               !.enemies = <<>>, !.particles = <<>>, !.powerUps = <<>>,
                               !.lastEnemySpawn = 0,
                               !.enemySpawnRate = INITIAL_ENEMY_SPAWN_RATE])
             w2 == IF w1.pumInitialized THEN ClearAllPowerUps(w1) ELSE w1
         IN  [UpdateLives(UpdateScore(w2, 0), 0) EXCEPT !.gameOverDisplay = "none"]

GameEnter(w) ==
    LET w1 == [w EXCEPT !.gameRunning = TRUE, !.score = 0, !.lives = INITIAL_LIVES,
                        !.bullets = <<>>, !.enemies = <<>>, !.particles = <<>>,
                        !.powerUps = <<>>, !.lastEnemySpawn = 0,
                        !.enemySpawnRate = INITIAL_ENEMY_SPAWN_RATE]
        w2 == PlayerReset(w1)
        w3 == IF w2.pumInitialized THEN ClearAllPowerUps(w2) ELSE w2
        w4 == UpdateLives(UpdateScore(w3, 0), 0)
    IN  [w4 EXCEPT !.gameOverDisplay = "none"]

GameExit(w) == [w EXCEPT !.gameRunning = FALSE]

PauseEnter(w) == [w EXCEPT !.previousState = "GameState"]

PauseExit(w) == w

\* an enter that shows the game-over screen without writing the final score
GameOverEnterNoScore(w) ==
    [w EXCEPT !.gameRunning = FALSE, !.gameOverDisplay = "block"]

GameOverEnter(w) ==
    [w EXCEPT !.gameRunning = FALSE, !.finalScoreText = w.score,
              !.gameOverDisplay = "block"]

GameOverExit(w) == [w EXCEPT !.gameOverDisplay = "none"]

Enter(w, name) ==
    LET l == Log(w, "enter", name) IN
    CASE name = "IntroState" -> IntroEnter(l)
      [] name = "CharacterSelectState" -> CharacterSelectEnter(l)
      [] name = "GameState" -> GameEnter(l)
      [] name = "PauseState" -> PauseEnter(l)
      [] name = "GameOverState" -> GameOverEnter(l)
      [] OTHER -> l

Exit(w, name) ==
    LET l == Log(w, "exit", name) IN
    CASE name = "IntroState" -> IntroExit(l)
      [] name = "CharacterSelectState" -> CharacterSelectExit(l)
      [] name = "GameState" -> GameExit(l)
      [] name = "PauseState" -> PauseExit(l)
      [] name = "GameOverState" -> GameOverExit(l)
      [] OTHER -> l

(***************************************************************************)
(* GameStateManager.setState                                               *)
(***************************************************************************)
IsRegistered(w, stateName) == stateName # "" /\ stateName \in DOMAIN w.states

\* A state object is named after its class.  Besides the five states of the game
\* there are a plain State (every method of the base class is empty), two
\* subclasses of State whose enter() or exit() throws, an object that is not a
\* State, and null.
StateObjects == StateNames \cup {"BaseState", "EnterThrows", "ExitThrows"}

\* a setState that exits the current state before it looks the name up
SetStateExitFirst(w, stateName) ==
    LET w1 == IF w.currentState # "null" THEN Exit(w, w.currentState) ELSE w IN
    IF ~IsRegistered(w, stateName)
    THEN Returned(w1, "setState", FALSE)
    ELSE
    LET newState == w.states[stateName]
        w2 == [Log(w1, "set", newState) EXCEPT
                  !.currentState = newState,
                  !.transitions = Append(@, <<w.currentState, newState>>)]
    IN  Returned(Enter(w2, newState), "setState", TRUE)

\* a setState that enters the new state before it exits the old one
SetStateEnterFirst(w, stateName) ==
    IF ~IsRegistered(w, stateName)
    THEN Returned(w, "setState", FALSE)
    ELSE
    LET newState == w.states[stateName]
        w1 == Enter(w, newState)
        w2 == IF w.currentState # "null" THEN Exit(w1, w.currentState) ELSE w1
        w3 == [Log(w2, "set", newState) EXCEPT
                  !.currentState = newState,
                  !.transitions = Append(@, <<w.currentState, newState>>)]
    IN  Returned(w3, "setState", TRUE)

\* a setState that clears the pointer before enter() and sets it only when
\* enter() returns a truthy value, which no enter() does
SetStatePointerLost(w, stateName) ==
    IF ~IsRegistered(w, stateName)
    THEN Returned(w, "setState", FALSE)
    ELSE
    LET newState == w.states[stateName]
        w1 == IF w.currentState # "null" THEN Exit(w, w.currentState) ELSE w
        w2 == [w1 EXCEPT !.currentState = "null"]
    IN  Returned(Enter(w2, newState), "setState", FALSE)

\* GameStateManager.addState: Map.set replaces what the name held before
AddState(w, name, state) ==
    IF name = "" \/ state = "null" \/ state \notin StateObjects
    THEN Returned(w, "addState", FALSE)
    ELSE Returned([w EXCEPT !.states = TablePut(@, name, state)], "addState", TRUE)

\* GameStateManager.setState.  A throw of exit() or enter() lands in the catch
\* block, which logs the error and returns false; what ran before stays done.
SetState(w, stateName) ==
    IF ~IsRegistered(w, stateName)
    THEN Returned(w, "setState", FALSE)
    ELSE
    LET newState == w.states[stateName] IN
    IF w.currentState # "null" /\ w.currentState = "ExitThrows"
    THEN Returned(Log(w, "exit", w.currentState), "setState", FALSE)
    ELSE
    LET w1 == IF w.currentState # "null" THEN Exit(w, w.currentState) ELSE w
        w2 == [Log(w1, "set", newState) EXCEPT
                  !.currentState = newState,
                  !.transitions = Append(@, <<w.currentState, newState>>)]
    IN  IF newState = "EnterThrows"
        THEN Returned(Log(w2, "enter", newState), "setState", FALSE)
        ELSE Returned(Enter(w2, newState), "setState", TRUE)

GoBack(w) == SetState(w, "IntroState")

ConfirmSelection(w) ==
    IF w.selectedTheme = "null" \/ w.selectedSpaceship = "null" THEN w
    ELSE SetState(SaveSelections(w), "GameState")

\* IntroState.startGame: the intro screen exists, so animateTransition defers
\* the callback by a 500 ms timeout.
StartGame(w) == [w EXCEPT !.pendingTimers = @ + 1]

(***************************************************************************)
(* Entities                                                                *)
(***************************************************************************)
CanvasWidth == CANVAS_WIDTH * Unit       \* canvas.width, as the page sets it
CanvasHeight == CANVAS_HEIGHT * Unit     \* canvas.height
PlayerW == PLAYER_SIZE * Unit
PlayerH == PLAYER_SIZE * Unit
EnemyW == ENEMY_SIZE * Unit
EnemyH == ENEMY_SIZE * Unit
BulletW == BULLET_WIDTH * Unit
BulletH == BULLET_HEIGHT * Unit
PowerUpW == POWERUP_SIZE * Unit
PowerUpH == POWERUP_SIZE * Unit
\* sin(0.3) * BULLET_SPEED and cos(0.3) * BULLET_SPEED, rounded to the model's unit
SpreadVelX == 4
SpreadVelY == 13

NewBullet(x, y, velX, velY) == [x |-> x, y |-> y, velX |-> velX, velY |-> velY]

NewEnemy(x, speed, maxHealth) ==
    [x |-> x, y |-> (0 - ENEMY_SIZE) * Unit, speed |-> speed, maxHealth |-> maxHealth,
     currentHealth |-> maxHealth, healthBarVisible |-> FALSE]

NewPowerUp(x, y, type) == [x |-> x, y |-> y, type |-> type, collected |-> FALSE]

\* the axis-aligned bounding-box test used by every collision pass
Overlaps(ax, ay, aw, ah, bx, by, bw, bh) ==
    /\ ax < bx + bw
    /\ ax + aw > bx
    /\ ay < by + bh
    /\ ay + ah > by

RemoveAt(s, i) == SubSeq(s, 1, i - 1) \o SubSeq(s, i + 1, Len(s))

Repeat(n, x) == [i \in 1..n |-> x]

Map(s, F(_)) == [i \in 1..Len(s) |-> F(s[i])]

Filter(s, Keep(_)) == SelectSeq(s, Keep)

\* enemies.splice(i, 1), with the reason noted
Splice(w, i, why) ==
    [w EXCEPT !.removed = Append(@, [why |-> why,
                                     health |-> w.enemies[i].currentHealth,
                                     maxHealth |-> w.enemies[i].maxHealth]),
              !.enemies = RemoveAt(@, i)]

CreateExplosion(w) ==
    [w EXCEPT !.particles = @ \o Repeat(EXPLOSION_PARTICLES, PARTICLE_LIFE)]

CreateShieldImpactEffect(w) ==
    [w EXCEPT !.particles = @ \o Repeat(20, 25) \o Repeat(8, 15)]

\* spawnPowerUp: drop is the outcome of its two random draws, "none" or a type
SpawnPowerUp(w, x, y, drop) ==
    IF drop = "none" THEN w
    ELSE [w EXCEPT !.powerUps = Append(@, NewPowerUp(x, y, drop))]

\* a takeDamage in which an enemy at full health absorbs the hit
TakeDamageAbsorbed(enemy, amount) ==
    LET h == IF enemy.currentHealth >= enemy.maxHealth THEN enemy.currentHealth
             ELSE enemy.currentHealth - amount
    IN  [enemy EXCEPT !.currentHealth = IF h < 0 THEN 0 ELSE h,
                      !.healthBarVisible = TRUE]

TakeDamage(enemy, amount) ==
    LET h == enemy.currentHealth - amount IN
    [enemy EXCEPT !.currentHealth = IF h < 0 THEN 0 ELSE h,
                  !.healthBarVisible = TRUE]

\* an isDestroyed that is off by one
IsDestroyedEarly(enemy) == enemy.currentHealth <= 1

IsDestroyed(enemy) == enemy.currentHealth <= 0

\* n calls of takeDamage(1) on one enemy
RECURSIVE Hits(_, _)
Hits(enemy, n) == IF n = 0 THEN enemy ELSE Hits(TakeDamage(enemy, 1), n - 1)

UpdateHealthBarVisibility(enemy) ==
    IF enemy.currentHealth >= enemy.maxHealth
    THEN [enemy EXCEPT !.healthBarVisible = FALSE]
    ELSE enemy

(***************************************************************************)
(* Fire control                                                            *)
(***************************************************************************)
GetCurrentShootCooldown(w) ==
    IF w.pumInitialized /\ IsPowerUpActive(w, "RAPID_FIRE")
    THEN SHOOT_COOLDOWN \div 4
    ELSE SHOOT_COOLDOWN

\* a getCurrentBulletPattern that tests Multi-Shot before Laser Beam
GetCurrentBulletPatternSpreadFirst(w) ==
    IF w.pumInitialized /\ IsPowerUpActive(w, "MULTI_SHOT") THEN "spread"
    ELSE IF w.pumInitialized /\ IsPowerUpActive(w, "LASER_BEAM") THEN "laser"
    ELSE "single"

GetCurrentBulletPattern(w) ==
    IF w.pumInitialized /\ IsPowerUpActive(w, "LASER_BEAM") THEN "laser"
    ELSE IF w.pumInitialized /\ IsPowerUpActive(w, "MULTI_SHOT") THEN "spread"
    ELSE "single"

CreateBullets(w, pattern) ==
    LET centerX == w.player.x + PlayerW \div 2
        bx == centerX - 2 * Unit
        by == w.player.y
        up == 0 - BULLET_SPEED * Unit
    IN  CASE pattern = "laser" -> w
          [] pattern = "spread" ->
                [w EXCEPT !.bullets = @ \o <<NewBullet(bx, by, 0, up),
                                             NewBullet(bx, by, 0 - SpreadVelX, 0 - SpreadVelY),
                                             NewBullet(bx, by, SpreadVelX, 0 - SpreadVelY)>>]
          [] OTHER ->
                [w EXCEPT !.bullets = Append(@, NewBullet(bx, by, 0, up))]

ShootBullet(w) ==
    IF w.now - w.lastShot > GetCurrentShootCooldown(w)
    THEN [CreateBullets(w, GetCurrentBulletPattern(w)) EXCEPT !.lastShot = w.now]
    ELSE w

(***************************************************************************)
(* Spawning and movement                                                   *)
(***************************************************************************)
\* a spawnEnemy without the test against MIN_ENEMY_SPAWN_RATE
SpawnEnemyNoFloor(w, x, speed, maxHealth) ==
    IF w.now - w.lastEnemySpawn > w.enemySpawnRate
    THEN [w EXCEPT !.enemies = Append(@, NewEnemy(x, speed, maxHealth)),
                   !.lastEnemySpawn = w.now,
                   !.enemySpawnRate = @ - SPAWN_RATE_DECREASE]
    ELSE w

\* a spawnEnemy that shortens the interval at every call, spawn or not
SpawnEnemyEveryCall(w, x, speed, maxHealth) ==
    LET w1 == [w EXCEPT !.enemySpawnRate = IF @ > MIN_ENEMY_SPAWN_RATE
                                           THEN @ - SPAWN_RATE_DECREASE ELSE @]
    IN  IF w.now - w.lastEnemySpawn > w.enemySpawnRate
        THEN [w1 EXCEPT !.enemies = Append(@, NewEnemy(x, speed, maxHealth)),
                        !.lastEnemySpawn = w.now]
        ELSE w1

\* x, speed and maxHealth are the three random draws of the Enemy constructor
SpawnEnemy(w, x, speed, maxHealth) ==
    IF w.now - w.lastEnemySpawn > w.enemySpawnRate
    THEN [w EXCEPT !.enemies = Append(@, NewEnemy(x, speed, maxHealth)),
                   !.lastEnemySpawn = w.now,
                   !.enemySpawnRate = IF @ > MIN_ENEMY_SPAWN_RATE
                                      THEN @ - SPAWN_RATE_DECREASE ELSE @]
    ELSE w

UpdateBullets(w) ==
    LET Move(b) == [b EXCEPT !.x = @ + b.velX, !.y = @ + b.velY]
        Keep(b) == ~(b.y < 0)
    IN  [w EXCEPT !.bullets = Filter(Map(@, Move), Keep)]

UpdateEnemies(w) ==
    LET Move(e) == UpdateHealthBarVisibility(
                       [e EXCEPT !.y = @ + e.speed * w.timeSlowMultiplier])
        Keep(e) == ~(e.y > w.canvas.height)
        Gone(e) == e.y > w.canvas.height
        Note(e) == [why |-> "escaped", health |-> e.currentHealth,
                    maxHealth |-> e.maxHealth]
        moved == Map(w.enemies, Move)
    IN  [w EXCEPT !.enemies = Filter(moved, Keep),
                  !.removed = @ \o Map(Filter(moved, Gone), Note)]

UpdateParticles(w) ==
    LET Age(life) == life - 1
        Keep(life) == ~(life <= 0)
    IN  [w EXCEPT !.particles = Filter(Map(@, Age), Keep)]

\* the function updatePowerUps: the falling pickups
UpdatePowerUps(w) ==
    LET Move(p) == [p EXCEPT !.y = @ + POWERUP_SPEED * Unit]
        Keep(p) == ~(p.y > w.canvas.height \/ p.collected)
    IN  [w EXCEPT !.powerUps = Filter(Map(@, Move), Keep)]

(***************************************************************************)
(* Collision and damage                                                    *)
(***************************************************************************)
\* an explosion damage rounded down instead of up
ExplosiveDamageFloored(distSq, radius) ==
    CHOOSE k \in 1..3 :
        /\ 4 * distSq <= ((3 - k) * radius) * ((3 - k) * radius)
        /\ \A j \in 1..3 :
              4 * distSq <= ((3 - j) * radius) * ((3 - j) * radius) => k >= j

\* Math.ceil(minDamage + (maxDamage - minDamage) * (1 - distance / radius)) for
\* distance <= radius, from the squared distance: the least k in 1..3 with
\* k >= 1 + 2 * (1 - d / r), that is with (2 * d)^2 >= ((3 - k) * r)^2.
ExplosiveDamage(distSq, radius) ==
    CHOOSE k \in 1..3 :
        /\ 4 * distSq >= ((3 - k) * radius) * ((3 - k) * radius)
        /\ \A j \in 1..3 :
              4 * distSq >= ((3 - j) * radius) * ((3 - j) * radius) => k <= j

\* a note of enemies[at].takeDamage(damage): `among' are the places in the list
\* of the enemies the bullet overlapped, distSq the squared distance between
\* the impact point and the enemy's centre; damage 0 notes an enemy left alone
Struck(by, at, among, distSq, damage, before, after) ==
    [by |-> by, at |-> at, among |-> among, distSq |-> distSq, damage |-> damage,
     before |-> before, after |-> after]

\* a sweep that, having removed the enemy at place i, looks at place i again,
\* where the enemy it examined before now is
RECURSIVE ExplosiveSweepRevisits(_, _, _, _, _, _)
ExplosiveSweepRevisits(w, i, centerX, centerY, radius, drop) ==
    IF i < 1 THEN w
    ELSE
    LET enemy == w.enemies[i]
        dx == centerX - (enemy.x + EnemyW \div 2)
        dy == centerY - (enemy.y + EnemyH \div 2)
        distSq == dx * dx + dy * dy
    IN  IF distSq <= radius * radius
        THEN LET hit == TakeDamage(enemy, ExplosiveDamage(distSq, radius))
                 note == Struck("explosion", i, {}, distSq,
                                ExplosiveDamage(distSq, radius),
                                enemy.currentHealth, hit.currentHealth)
             IN
             IF IsDestroyed(hit)
             THEN LET w1 == CreateExplosion(w)
                      w2 == SpawnPowerUp(w1, hit.x + EnemyW \div 2 - 10 * Unit,
                                         hit.y + EnemyH \div 2 - 10 * Unit, drop)
                      w3 == Splice([w2 EXCEPT !.enemies[i] = hit,
                                              !.hits = Append(@, note)],
                                   i, "destroyed")
                  IN  ExplosiveSweepRevisits(UpdateScore(w3, KILL_SCORE),
                                             IF i <= Len(w3.enemies) THEN i ELSE i - 1,
                                             centerX, centerY, radius, drop)
             ELSE ExplosiveSweepRevisits([w EXCEPT !.enemies[i] = hit,
                                           !.hits = Append(@, note)], i - 1,
                                 centerX, centerY, radius, drop)
        ELSE ExplosiveSweepRevisits(
                 [w EXCEPT !.hits = Append(@, Struck("explosion", i, {}, distSq, 0,
                                                     enemy.currentHealth,
                                                     enemy.currentHealth))],
                 i - 1, centerX, centerY, radius, drop)

RECURSIVE ExplosiveSweep(_, _, _, _, _, _)
ExplosiveSweep(w, i, centerX, centerY, radius, drop) ==
    IF i < 1 THEN w
    ELSE
    LET enemy == w.enemies[i]
        dx == centerX - (enemy.x + EnemyW \div 2)
        dy == centerY - (enemy.y + EnemyH \div 2)
        distSq == dx * dx + dy * dy
    IN  IF distSq <= radius * radius
        THEN LET hit == TakeDamage(enemy, ExplosiveDamage(distSq, radius))
                 note == Struck("explosion", i, {}, distSq,
                                ExplosiveDamage(distSq, radius),
                                enemy.currentHealth, hit.currentHealth)
             IN
             IF IsDestroyed(hit)
             THEN LET w1 == CreateExplosion(w)
                      w2 == SpawnPowerUp(w1, hit.x + EnemyW \div 2 - 10 * Unit,
                                         hit.y + EnemyH \div 2 - 10 * Unit, drop)
                      w3 == Splice([w2 EXCEPT !.enemies[i] = hit,
                                              !.hits = Append(@, note)],
                                   i, "destroyed")
                  IN  ExplosiveSweep(UpdateScore(w3, KILL_SCORE), i - 1,
                                     centerX, centerY, radius, drop)
             ELSE ExplosiveSweep([w EXCEPT !.enemies[i] = hit,
                                           !.hits = Append(@, note)], i - 1,
                                 centerX, centerY, radius, drop)
        ELSE ExplosiveSweep(
                 [w EXCEPT !.hits = Append(@, Struck("explosion", i, {}, distSq, 0,
                                                     enemy.currentHealth,
                                                     enemy.currentHealth))],
                 i - 1, centerX, centerY, radius, drop)

ApplyExplosiveDamage(w, centerX, centerY, radius, drop) ==
    LET swept == ExplosiveSweep(w, Len(w.enemies), centerX, centerY, radius, drop)
        boom == CreateExplosion(swept)
    IN  [boom EXCEPT !.particles = @ \o Repeat(25, PARTICLE_LIFE)]

\* the body of the inner loop of the bullet pass, once bullets[i] overlaps enemies[j]
BulletHit(w, i, j, drop) ==
    LET b == w.bullets[i]
        impactX == b.x + BulletW \div 2
        impactY == b.y + BulletH \div 2
        w1 == [w EXCEPT !.bullets = RemoveAt(@, i)]
    IN  IF w1.player.explosiveRoundsActive
        THEN ApplyExplosiveDamage(w1, impactX, impactY, EXPLOSION_RADIUS * Unit, drop)
        ELSE LET hit == TakeDamage(w1.enemies[j], 1)
                 among == {k \in 1..Len(w.enemies) :
                             Overlaps(b.x, b.y, BulletW, BulletH,
                                      w.enemies[k].x, w.enemies[k].y, EnemyW, EnemyH)}
                 note == Struck("bullet", j, among, 0, 1,
                                w.enemies[j].currentHealth, hit.currentHealth)
             IN
             IF IsDestroyed(hit)
             THEN LET w2 == CreateExplosion(w1)
                      w3 == SpawnPowerUp(w2, hit.x + EnemyW \div 2 - 10 * Unit,
                                         hit.y + EnemyH \div 2 - 10 * Unit, drop)
                      w4 == Splice([w3 EXCEPT !.enemies[j] = hit,
                                              !.hits = Append(@, note)],
                                   j, "destroyed")
                  IN  UpdateScore(w4, KILL_SCORE)
             ELSE [w1 EXCEPT !.enemies[j] = hit, !.hits = Append(@, note)]

RECURSIVE BulletEnemyPass(_, _, _, _)
BulletEnemyPass(w, i, j, drop) ==
    IF i < 1 THEN w
    ELSE IF j < 1 THEN BulletEnemyPass(w, i - 1, Len(w.enemies), drop)
    ELSE LET b == w.bullets[i]
             e == w.enemies[j]
         IN  IF Overlaps(b.x, b.y, BulletW, BulletH, e.x, e.y, EnemyW, EnemyH)
             THEN LET after == BulletHit(w, i, j, drop) IN
                  BulletEnemyPass(after, i - 1, Len(after.enemies), drop)
             ELSE BulletEnemyPass(w, i, j - 1, drop)

\* gameOver(): the state manager is ready, so it asks for GameOverState
GameOver(w) == SetState(w, "GameOverState")

Shielded(w) == w.player.invincible /\ w.player.shieldActive

\* a player pass that counts a rammed enemy as a kill
PlayerHitScores(w, i) ==
    IF Shielded(w)
    THEN Splice(CreateShieldImpactEffect(w), i, "deflected")
    ELSE LET w1 == CreateExplosion(w)
             w2 == UpdateScore(Splice(w1, i, "collided"), KILL_SCORE)
             w3 == UpdateLives(w2, -1)
         IN  IF w3.lives <= 0 THEN GameOver(w3) ELSE w3

\* a player pass in which the shield removes the enemy and a life is lost all
\* the same
PlayerHitShieldLeaks(w, i) ==
    IF Shielded(w)
    THEN UpdateLives(Splice(CreateShieldImpactEffect(w), i, "deflected"), -1)
    ELSE LET w1 == CreateExplosion(w)
             w2 == Splice(w1, i, "collided")
             w3 == UpdateLives(w2, -1)
         IN  IF w3.lives <= 0 THEN GameOver(w3) ELSE w3

\* the body of the player pass, once enemies[i] overlaps the player
PlayerHit(w, i) ==
    IF Shielded(w)
    THEN Splice(CreateShieldImpactEffect(w), i, "deflected")
    ELSE LET w1 == CreateExplosion(w)
             w2 == Splice(w1, i, "collided")
             w3 == UpdateLives(w2, -1)
         IN  IF w3.lives <= 0 THEN GameOver(w3) ELSE w3

RECURSIVE PlayerEnemyPass(_, _)
PlayerEnemyPass(w, i) ==
    IF i < 1 THEN w
    ELSE LET e == w.enemies[i] IN
         IF Overlaps(e.x, e.y, EnemyW, EnemyH, w.player.x, w.player.y, PlayerW, PlayerH)
         THEN PlayerEnemyPass(PlayerHit(w, i), i - 1)
         ELSE PlayerEnemyPass(w, i - 1)

CheckCollisions(w, drop) ==
    LET shot == BulletEnemyPass(w, Len(w.bullets), Len(w.enemies), drop)
    IN  PlayerEnemyPass(shot, Len(shot.enemies))

RECURSIVE PickupPass(_, _)
PickupPass(w, i) ==
    IF i < 1 THEN w
    ELSE LET p == w.powerUps[i] IN
         IF ~p.collected
            /\ Overlaps(p.x, p.y, PowerUpW, PowerUpH,
                        w.player.x, w.player.y, PlayerW, PlayerH)
         THEN LET w1 == IF w.pumInitialized THEN AddPowerUp(w, p.type) ELSE w
              IN  PickupPass([w1 EXCEPT !.powerUps = RemoveAt(@, i)], i - 1)
         ELSE PickupPass(w, i - 1)

CheckPowerUpCollisions(w) == PickupPass(w, Len(w.powerUps))

(***************************************************************************)
(* update() and handleInput() of the five states                           *)
(***************************************************************************)
Held(w, code) == code \in w.keys

Release(w, code) == [w EXCEPT !.keys = @ \ {code}]

IntroHandleInput(w) ==
    LET w1 == IF Held(w, "Enter") \/ Held(w, "Space")
              THEN StartGame(Release(Release(w, "Enter"), "Space"))
              ELSE w
        w2 == IF Held(w1, "Tab") THEN Release(w1, "Tab") ELSE w1
    IN  IF Held(w2, "Escape") THEN Release(w2, "Escape") ELSE w2

CharacterSelectHandleInput(w) ==
    LET w1 == IF Held(w, "Escape") THEN GoBack(Release(w, "Escape")) ELSE w
        w2 == IF Held(w1, "Enter") THEN ConfirmSelection(Release(w1, "Enter")) ELSE w1
        w3 == IF Held(w2, "ArrowLeft") THEN PreviousTheme(Release(w2, "ArrowLeft")) ELSE w2
    IN  IF Held(w3, "ArrowRight") THEN NextTheme(Release(w3, "ArrowRight")) ELSE w3

\* a handleInput that leaves the fire key flag set after shootBullet()
GameHandleInputBuffered(w) ==
    LET step == PLAYER_SPEED * Unit
        w1 == IF Held(w, "ArrowLeft") /\ w.player.x > 0
              THEN [w EXCEPT !.player.x = @ - step] ELSE w
        w2 == IF Held(w1, "ArrowRight") /\ w1.player.x < w.canvas.width - PlayerW
              THEN [w1 EXCEPT !.player.x = @ + step] ELSE w1
        w3 == IF Held(w2, "ArrowUp") /\ w2.player.y > 0
              THEN [w2 EXCEPT !.player.y = @ - step] ELSE w2
        w4 == IF Held(w3, "ArrowDown") /\ w3.player.y < w.canvas.height - PlayerH
              THEN [w3 EXCEPT !.player.y = @ + step] ELSE w3
        w5 == IF Held(w4, "Space") THEN ShootBullet(w4) ELSE w4
    IN  IF Held(w5, "Escape") THEN SetState(Release(w5, "Escape"), "PauseState") ELSE w5

GameHandleInput(w) ==
    LET step == PLAYER_SPEED * Unit
        w1 == IF Held(w, "ArrowLeft") /\ w.player.x > 0
              THEN [w EXCEPT !.player.x = @ - step] ELSE w
        w2 == IF Held(w1, "ArrowRight") /\ w1.player.x < w.canvas.width - PlayerW
              THEN [w1 EXCEPT !.player.x = @ + step] ELSE w1
        w3 == IF Held(w2, "ArrowUp") /\ w2.player.y > 0
              THEN [w2 EXCEPT !.player.y = @ - step] ELSE w2
        w4 == IF Held(w3, "ArrowDown") /\ w3.player.y < w.canvas.height - PlayerH
              THEN [w3 EXCEPT !.player.y = @ + step] ELSE w3
        w5 == IF Held(w4, "Space") THEN Release(ShootBullet(w4), "Space") ELSE w4
    IN  IF Held(w5, "Escape") THEN SetState(Release(w5, "Escape"), "PauseState") ELSE w5

\* an update that collects the pickups before it checks the collisions
GameUpdatePickupFirst(w, rnd) ==
    IF ~w.gameRunning THEN w
    ELSE
    LET w1 == GameHandleInput(w)
        w2 == SpawnEnemy(w1, rnd.x, rnd.speed, rnd.maxHealth)
        w3 == UpdatePowerUps(UpdateParticles(UpdateEnemies(UpdateBullets(w2))))
        w4 == IF w3.pumInitialized THEN ManagerUpdatePowerUps(w3) ELSE w3
        w5 == CheckCollisions(CheckPowerUpCollisions(w4), rnd.drop)
    IN  IF w5.lives <= 0 THEN SetState(w5, "GameOverState") ELSE w5

\* GameState.update; rnd holds the random draws of the frame
GameUpdate(w, rnd) ==
    IF ~w.gameRunning THEN w
    ELSE
    LET w1 == GameHandleInput(w)
        w2 == SpawnEnemy(w1, rnd.x, rnd.speed, rnd.maxHealth)
        w3 == UpdatePowerUps(UpdateParticles(UpdateEnemies(UpdateBullets(w2))))
        w4 == IF w3.pumInitialized THEN ManagerUpdatePowerUps(w3) ELSE w3
        w5 == CheckPowerUpCollisions(CheckCollisions(w4, rnd.drop))
    IN  IF w5.lives <= 0 THEN SetState(w5, "GameOverState") ELSE w5

PauseHandleInput(w) ==
    LET w1 == IF Held(w, "Escape")
              THEN (IF w.previousState # "null"
                    THEN SetState(Release(w, "Escape"), w.previousState)
                    ELSE Release(w, "Escape"))
              ELSE w
    IN  IF Held(w1, "KeyM") THEN SetState(Release(w1, "KeyM"), "IntroState") ELSE w1

GameOverHandleInput(w) ==
    LET w1 == IF Held(w, "KeyR") THEN SetState(Release(w, "KeyR"), "GameState") ELSE w
        w2 == IF Held(w1, "KeyC")
              THEN SetState(Release(w1, "KeyC"), "CharacterSelectState") ELSE w1
    IN  IF Held(w2, "KeyM") THEN SetState(Release(w2, "KeyM"), "IntroState") ELSE w2

\* GameStateManager.update: delegate to the current state
ManagerUpdate(w, rnd) ==
    CASE w.currentState = "IntroState" -> IntroHandleInput(w)
      [] w.currentState = "CharacterSelectState" -> CharacterSelectHandleInput(w)
      [] w.currentState = "GameState" -> GameUpdate(w, rnd)
      [] w.currentState = "PauseState" -> PauseHandleInput(w)
      [] w.currentState = "GameOverState" -> GameOverHandleInput(w)
      [] OTHER -> w

\* GameStateManager.handleInput: delegate to the current state; a throw of the
\* state's handleInput() is caught and logged.  fault names the callback of
\* the current state that throws in this call ("none" when none does).
ManagerHandleInput(w, fault) ==
    IF fault = "handleInput" THEN Returned(w, "handleInput", FALSE)
    ELSE Returned(CASE w.currentState = "IntroState" -> IntroHandleInput(w)
                    [] w.currentState = "CharacterSelectState" ->
                          CharacterSelectHandleInput(w)
                    [] w.currentState = "GameState" -> GameHandleInput(w)
                    [] w.currentState = "PauseState" -> PauseHandleInput(w)
                    [] w.currentState = "GameOverState" -> GameOverHandleInput(w)
                    [] OTHER -> w,
                  "handleInput", TRUE)

\* a gameLoop that calls the callbacks of the current state itself: a throw of
\* update() reaches the catch block of the loop, past the call of render()
GameLoopUncaught(w, rnd, fault) ==
    IF fault = "update"
    THEN Returned(Returned(w, "update", FALSE), "requestAnimationFrame", TRUE)
    ELSE Returned(Returned(Returned(ManagerUpdate(w, rnd), "update", TRUE),
                           "render", fault # "render"),
                  "requestAnimationFrame", TRUE)

\* gameLoop with a ready state manager: GameStateManager.update, then
\* GameStateManager.render, each with its own catch block, then
\* requestAnimationFrame.  The log tells which callback returned normally.
GameLoop(w, rnd, fault) ==
    LET updated == IF fault = "update" THEN Returned(w, "update", FALSE)
                   ELSE Returned(ManagerUpdate(w, rnd), "update", TRUE)
        rendered == Returned(updated, "render", fault # "render")
    IN  Returned(rendered, "requestAnimationFrame", TRUE)

(***************************************************************************)
(* Click listeners                                                         *)
(***************************************************************************)
ClickHandler(w, button) ==
    CASE button = "startButton" -> StartGame(w)
      [] button = "backToIntro" -> GoBack(w)
      [] button = "confirmSelection" -> ConfirmSelection(w)
      [] button = "themePrev" -> PreviousTheme(w)
      [] button = "themeNext" -> NextTheme(w)
      [] button \in SeqToSet(ThemeNames) -> SelectTheme(w, button)   \* a theme card

\* one click runs every listener the button carries, in the order they were added
RECURSIVE Dispatch(_, _, _)
Dispatch(w, button, n) ==
    IF n = 0 THEN w ELSE Dispatch(ClickHandler(w, button), button, n - 1)

ListenersOf(w, button) ==
    IF button = "startButton" THEN w.startListeners ELSE w.csListeners

\* a button can be clicked while its screen is displayed and it is not disabled
Clickable(w, button) ==
    CASE button = "startButton" -> w.introDisplay = "flex"
      [] button = "themePrev" ->
            w.charSelectDisplay = "flex" /\ ~(w.currentThemeIndex <= 0)
      [] button = "themeNext" ->
            w.charSelectDisplay = "flex" /\ ~(w.currentThemeIndex >= Len(ThemeNames) - 1)
      [] OTHER -> w.charSelectDisplay = "flex"

(***************************************************************************)
(* Initial states                                                          *)
(***************************************************************************)
\* initializeStateManager after new GameStateManager(): no state is registered
\* and none is current.
NewManager ==
    [currentState |-> "null", states |-> [n \in {} |-> "null"], keys |-> {},
     introDisplay |-> "none", charSelectDisplay |-> "none",
     gameOverDisplay |-> "none", hudDisplay |-> "flex",
     scoreText |-> 0, livesText |-> INITIAL_LIVES, finalScoreText |-> 0,
     startListeners |-> 0, csListeners |-> 0, pendingTimers |-> 0,
     selectedTheme |-> "masked-rider", selectedSpaceship |-> "null",
     currentThemeIndex |-> 0, storage |-> [theme |-> "null", ship |-> "null"],
     previousState |-> "null", gameRunning |-> TRUE, score |-> 0,
     lives |-> INITIAL_LIVES, lastEnemySpawn |-> 0,
     enemySpawnRate |-> INITIAL_ENEMY_SPAWN_RATE, lastShot |-> 0,
     player |-> InitialPlayer, bullets |-> <<>>, enemies |-> <<>>,
     particles |-> <<>>, powerUps |-> <<>>, pumInitialized |-> FALSE,
     activePowerUps |-> EmptyTable, laserActive |-> FALSE, laserBeam |-> "null",
     timeSlowMultiplier |-> NormalSpeed, now |-> ClockStart,
     canvas |-> [width |-> CanvasWidth, height |-> CanvasHeight],
     lifecycle |-> <<>>, transitions |-> <<>>, results |-> <<>>, removed |-> <<>>,
     hits |-> <<>>,
     hookState |-> [t \in PowerUpTypes |-> [st |-> "off", calls |-> 0]],
     lastOp |-> [name |-> "init", arg |-> ""], frames |-> 0]

\* the five addState calls of initializeStateManager have registered the states
Constructed == [NewManager EXCEPT !.states = [n \in StateNames |-> n]]

Quiet(w) ==
    [w EXCEPT !.lifecycle = <<>>, !.transitions = <<>>, !.results = <<>>,
              !.removed = <<>>, !.hits = <<>>,
              !.hookState = [t \in PowerUpTypes |->
                                [w.hookState[t] EXCEPT !.calls = 0]]]

\* initializeGame has returned: IntroState is current, the power-up manager is
\* initialized and the frame loop runs.
Booted ==
    Quiet([SetState(Constructed, "IntroState") EXCEPT !.pumInitialized = TRUE])

\* A session in play.  The player went through the two menus; since then two
\* enemies were shot, column enemies came down just left of the player (one
\* ArrowLeft step away from overlapping all of them), one damaged enemy is in
\* the line of fire, a pickup is about to reach the player and Rapid Fire is on.
ColumnSizes == {3, 4}
ScenarioPickups == {"SHIELD_GENERATOR"}

ColumnEnemy(i) ==
    [x |-> PlayerDefaultX - EnemyW - 3 * Unit,
     y |-> PlayerDefaultY - 24 * Unit + 4 * Unit * i,
     speed |-> 2, maxHealth |-> 2, currentHealth |-> 2, healthBarVisible |-> FALSE]

TargetEnemy ==
    [x |-> PlayerDefaultX, y |-> PlayerDefaultY - 35 * Unit,
     speed |-> 1, maxHealth |-> 2, currentHealth |-> 1, healthBarVisible |-> TRUE]

InPlay(column, pickup) ==
    LET menu == ConfirmSelection(SetState(Booted, "CharacterSelectState"))
        spawns == column + 3
        w1 == [menu EXCEPT
                 !.score = 2 * KILL_SCORE, !.scoreText = 2 * KILL_SCORE,
                 !.enemySpawnRate = INITIAL_ENEMY_SPAWN_RATE - spawns * SPAWN_RATE_DECREASE,
                 !.lastEnemySpawn = ClockStart - 100,
                 !.lastShot = ClockStart - 1000,
                 !.enemies = <<TargetEnemy>> \o [i \in 1..column |-> ColumnEnemy(i)],
                 !.particles = Repeat(EXPLOSION_PARTICLES, 3),
                 !.powerUps = <<NewPowerUp(PlayerDefaultX + 5 * Unit,
                                           PlayerDefaultY - POWERUP_SIZE * Unit,
                                           pickup)>>]
    IN  Quiet(AddPowerUp(w1, "RAPID_FIRE"))

StartsAt(w) ==
    /\ currentState = w.currentState
    /\ states = w.states
    /\ keys = w.keys
    /\ introDisplay = w.introDisplay
    /\ charSelectDisplay = w.charSelectDisplay
    /\ gameOverDisplay = w.gameOverDisplay
    /\ hudDisplay = w.hudDisplay
    /\ scoreText = w.scoreText
    /\ livesText = w.livesText
    /\ finalScoreText = w.finalScoreText
    /\ startListeners = w.startListeners
    /\ csListeners = w.csListeners
    /\ pendingTimers = w.pendingTimers
    /\ selectedTheme = w.selectedTheme
    /\ selectedSpaceship = w.selectedSpaceship
    /\ currentThemeIndex = w.currentThemeIndex
    /\ storage = w.storage
    /\ previousState = w.previousState
    /\ gameRunning = w.gameRunning
    /\ score = w.score
    /\ lives = w.lives
    /\ lastEnemySpawn = w.lastEnemySpawn
    /\ enemySpawnRate = w.enemySpawnRate
    /\ lastShot = w.lastShot
    /\ player = w.player
    /\ bullets = w.bullets
    /\ enemies = w.enemies
    /\ particles = w.particles
    /\ powerUps = w.powerUps
    /\ pumInitialized = w.pumInitialized
    /\ activePowerUps = w.activePowerUps
    /\ laserActive = w.laserActive
    /\ laserBeam = w.laserBeam
    /\ timeSlowMultiplier = w.timeSlowMultiplier
    /\ now = w.now
    /\ canvas = w.canvas
    /\ lifecycle = w.lifecycle
    /\ transitions = w.transitions
    /\ results = w.results
    /\ removed = w.removed
    /\ hits = w.hits
    /\ hookState = w.hookState
    /\ lastOp = w.lastOp
    /\ frames = w.frames

Init ==
    \/ StartsAt(Booted)
    \/ \E column \in ColumnSizes, pickup \in ScenarioPickups :
          StartsAt(InPlay(column, pickup))

(***************************************************************************)
(* The host's handlers                                                     *)
(***************************************************************************)
Keys == {"Enter", "Escape", "KeyR", "KeyC", "KeyM", "ArrowLeft"}
Buttons == {"startButton", "backToIntro", "confirmSelection"}
SpawnXs == {PlayerDefaultX}
EnemySpeeds == {2}
EnemyHealths == {2, 3}
Drops == {"none", "SHIELD_GENERATOR"}
TickSteps == {5000}
MaxElapsedGame == 5000
SessionTickSteps == {1000}
FireTickSteps == {25}
MaxElapsedFire == 75
MaxElapsedSession == 3000

Did(w, op) == [w EXCEPT !.lastOp = [name |-> op, arg |-> ""]]

Called(w, op, arg) == [w EXCEPT !.lastOp = [name |-> op, arg |-> arg]]

\* the keydown listener
KeyDown(code) ==
    /\ code \notin keys
    /\ Cardinality(keys) < MaxHeld
    /\ Commit(Did([W EXCEPT !.keys = @ \cup {code}], "keydown"))

\* the keyup listener
KeyUp(code) ==
    /\ code \in keys
    /\ Commit(Did([W EXCEPT !.keys = @ \ {code}], "keyup"))

\* a frame that runs the simulation step
Simulates(w) == w.currentState = "GameState" /\ w.gameRunning

\* gameLoop: update, then render (which draws and changes nothing modelled).
\* The simulation steps of one behaviour are bounded, the menu frames are not.
Frame ==
    /\ Simulates(W) => frames < MaxFrames
    /\ \E x \in SpawnXs, speed \in EnemySpeeds, maxHealth \in EnemyHealths,
          drop \in Drops :
          LET rnd == [x |-> x, speed |-> speed, maxHealth |-> maxHealth, drop |-> drop]
          IN  Commit(Did([ManagerUpdate(W, rnd) EXCEPT
                             !.frames = IF Simulates(W) THEN @ + 1 ELSE @], "frame"))

Click(button) ==
    /\ Clickable(W, button)
    /\ ListenersOf(W, button) > 0
    /\ Commit(Did(Dispatch(W, button, ListenersOf(W, button)), "click"))

\* a fade-out timeout of IntroState.animateTransition fires
TimerFire ==
    /\ pendingTimers > 0
    /\ Commit(Did(SetState([W EXCEPT !.pendingTimers = @ - 1], "CharacterSelectState"),
                  "timer"))

\* the wall clock advances between two handlers
Tick(steps, limit) ==
    \E dt \in steps :
        /\ now + dt <= ClockStart + limit
        /\ Commit(Did([W EXCEPT !.now = @ + dt], "tick"))

Next ==
    \/ \E code \in Keys : KeyDown(code)
    \/ \E code \in Keys : KeyUp(code)
    \/ Frame
    \/ \E button \in Buttons : Click(button)
    \/ TimerFire
    \/ Tick(TickSteps, MaxElapsedGame)

Spec == Init /\ [][Next]_vars

(***************************************************************************)
(* The power-up manager driven through its interface                       *)
(***************************************************************************)
PowerUpArgs == PowerUpTypes \cup {"UNKNOWN_TYPE"}
ManagerTickSteps == {10000}

ApiAddPowerUp(type) ==
    /\ pumInitialized
    /\ Commit(Called(AddPowerUp(W, type), "addPowerUp", type))

ApiRemovePowerUp(type) ==
    /\ pumInitialized
    /\ Commit(Called(RemovePowerUp(W, type), "removePowerUp", type))

ApiUpdatePowerUps ==
    /\ pumInitialized
    /\ Commit(Did(ManagerUpdatePowerUps(W), "updatePowerUps"))

ApiClearAllPowerUps ==
    /\ pumInitialized
    /\ Commit(Did(ClearAllPowerUps(W), "clearAllPowerUps"))

InitPU == StartsAt(Booted)

NextPU ==
    \/ \E type \in PowerUpArgs : ApiAddPowerUp(type)
    \/ \E type \in PowerUpTypes : ApiRemovePowerUp(type)
    \/ ApiUpdatePowerUps
    \/ ApiClearAllPowerUps
    \/ Tick(ManagerTickSteps, MaxElapsed)

SpecPU == InitPU /\ [][NextPU]_vars

(***************************************************************************)
(* The state manager driven through its interface                          *)
(***************************************************************************)
SetStateArgs == StateNames \cup {"", "UnknownState"}

ApiAddState(name) ==
    /\ name \in StateNames
    /\ Commit(Called(AddState(W, name, name), "addState", name))

ApiSetState(name) ==
    /\ name \in SetStateArgs
    /\ Commit(Called(SetState(W, name), "setState", name))

InitSM ==
    \/ StartsAt(NewManager)
    \/ Init

NextSM ==
    \/ \E name \in StateNames : ApiAddState(name)
    \/ \E name \in SetStateArgs : ApiSetState(name)

SpecSM == InitSM /\ [][NextSM]_vars

(***************************************************************************)
(* A session under fire                                                    *)
(***************************************************************************)
\* The player went through the two menus and has survived `spawns` enemies
\* without a kill.  Three enemies are left: an undamaged one of the given
\* maxHealth right above the player, in the line of fire; a damaged one at the
\* left that leaves through the bottom edge in the next frame; one at the
\* right that touches the player in the next frame.  A power-up may be active.
SessionSpawns ==
    LET floorSpawns == (INITIAL_ENEMY_SPAWN_RATE - MIN_ENEMY_SPAWN_RATE)
                           \div SPAWN_RATE_DECREASE
    IN  {0, floorSpawns - 1, floorSpawns}
SessionPowerUps == {"none", "SHIELD_GENERATOR", "EXPLOSIVE_ROUNDS"}

UnderFire(maxHealth, spawns, powerUp) ==
    LET menu == ConfirmSelection(SetState(Booted, "CharacterSelectState"))
        target == [NewEnemy(PlayerDefaultX, 1, maxHealth) EXCEPT
                      !.y = PlayerDefaultY - 36 * Unit]
        leaver == [NewEnemy(0, 2, 2) EXCEPT
                      !.y = CanvasHeight - Unit, !.currentHealth = 1,
                      !.healthBarVisible = TRUE]
        rammer == [NewEnemy(PlayerDefaultX + 25 * Unit, 2, 2) EXCEPT
                      !.y = PlayerDefaultY - 31 * Unit]
        w1 == [menu EXCEPT
                 !.enemySpawnRate = INITIAL_ENEMY_SPAWN_RATE - spawns * SPAWN_RATE_DECREASE,
                 !.lastEnemySpawn = ClockStart - 100,
                 !.lastShot = ClockStart - 1000,
                 !.enemies = <<target, leaver, rammer>>]
    IN  Quiet(IF powerUp = "none" THEN w1 ELSE AddPowerUp(w1, powerUp))

SessionFrame ==
    /\ Simulates(W)
    /\ frames < MaxSessionFrames
    /\ \E x \in SpawnXs, speed \in EnemySpeeds, maxHealth \in EnemyHealths :
          LET rnd == [x |-> x, speed |-> speed, maxHealth |-> maxHealth,
                      drop |-> "none"]
          IN  Commit(Called([GameLoop(W, rnd, "none") EXCEPT !.frames = @ + 1],
                            "frame", IF Held(W, "Space") THEN "fire" ELSE ""))

InitSession ==
    \E maxHealth \in 2..4, spawns \in SessionSpawns,
       powerUp \in SessionPowerUps :
        StartsAt(UnderFire(maxHealth, spawns, powerUp))

NextSession ==
    \/ KeyDown("Space")
    \/ KeyUp("Space")
    \/ SessionFrame
    \/ Tick(SessionTickSteps, MaxElapsedSession)

SpecSession == InitSession /\ [][NextSession]_vars

\* A session in play in which addPowerUp() is also given types that are none of
\* the six of the catalogue, by a call of the interface or by the pickup that is
\* about to reach the player.
OtherTypes == {"UNKNOWN_TYPE"} \cup ObjectPrototypeNames

InitTypes ==
    \E column \in ColumnSizes, pickup \in OtherTypes \cup ScenarioPickups :
        StartsAt(InPlay(column, pickup))

NextTypes ==
    \/ \E type \in OtherTypes \cup ScenarioPickups : ApiAddPowerUp(type)
    \/ SessionFrame
    \/ Tick(TickSteps, MaxElapsedGame)

SpecTypes == InitTypes /\ [][NextTypes]_vars

\* A session in play in which the pickup about to reach the player is of any of
\* the six types, the game is paused and resumed and effects run out.
InitEffects ==
    \E column \in ColumnSizes, pickup \in PowerUpTypes :
        StartsAt(InPlay(column, pickup))

NextEffects ==
    \/ KeyDown("Escape")
    \/ KeyUp("Escape")
    \/ Frame
    \/ Tick(ManagerTickSteps, MaxElapsed)

SpecEffects == InitEffects /\ [][NextEffects]_vars

(***************************************************************************)
(* Browsing the character selection                                        *)
(***************************************************************************)
\* The page has just been loaded: IntroState is current.  sessionStorage is
\* empty, or holds the pair a confirmSelection() saved before the page was
\* reloaded in the same tab.
SavedBefore ==
    {<<"null", "null">>, <<"masked-rider", "rider-2">>, <<"ultraman", "ultra-1">>,
     <<"godzilla", "kaiju-3">>}
SelectButtons ==
    {"startButton", "backToIntro", "confirmSelection", "themePrev", "themeNext"}
        \cup SeqToSet(ThemeNames)
SelectKeys == {"Escape", "KeyM", "Enter"}

Reloaded(saved) ==
    [Booted EXCEPT !.storage = [theme |-> saved[1], ship |-> saved[2]]]

\* a click on a spaceship option of the grid, which shows the selected theme's ships
ClickShip(ship) ==
    /\ charSelectDisplay = "flex"
    /\ ShipExists(selectedTheme, ship)
    /\ Commit(Called(SelectSpaceship(W, ship), "click", ship))

InitSelect == \E saved \in SavedBefore : StartsAt(Reloaded(saved))

NextSelect ==
    \/ \E button \in SelectButtons : Click(button)
    \/ \E theme \in DOMAIN THEME_CONFIGS :
          \E i \in 1..Len(THEME_CONFIGS[theme]) : ClickShip(THEME_CONFIGS[theme][i])
    \/ TimerFire
    \/ \E code \in SelectKeys : KeyDown(code)
    \/ \E code \in SelectKeys : KeyUp(code)
    \/ Frame

SpecSelect == InitSelect /\ [][NextSelect]_vars

\* The same page load when sessionStorage may also hold a pair that no
\* confirmSelection() of this program saved: a ship of another theme.
StoredBefore == SavedBefore \cup {<<"ultraman", "rider-2">>, <<"godzilla", "ultra-1">>}

InitStored == \E saved \in StoredBefore : StartsAt(Reloaded(saved))

SpecStored == InitStored /\ [][NextSelect]_vars

\* The start action was taken twice before the first fade-out timeout fired
\* (Enter pressed again, or the key repeating, within the 500 ms): two deferred
\* callbacks are pending when the first of them runs.
StartedTwice == Quiet(StartGame(StartGame(Booted)))

InitStart == StartsAt(StartedTwice)

StartButtons == {"confirmSelection", "backToIntro"}

NextStart ==
    \/ TimerFire
    \/ \E button \in StartButtons : Click(button)
    \/ KeyDown("Enter")
    \/ KeyUp("Enter")
    \/ Frame

SpecStart == InitStart /\ [][NextStart]_vars

(***************************************************************************)
(* A volley in flight                                                      *)
(***************************************************************************)
\* Two bullets fired from the start position and from one step to its right
\* are in flight, and three enemies of speed 2 come down around the point
\* where the first bullet will be in the next frame: each enemy is placed by
\* the offset, in pixels, that its centre will then have from the bullet's
\* centre.  Explosive Rounds may be active, or Laser Beam may just have been
\* collected.
VolleyOffsets ==
    {<< <<0, 0>>, <<15, 20>>, <<60, 0>> >>,
     << <<10, 5>>, <<0, 0>>, <<30, 40>> >>,
     << <<0, 0>>, <<-25, 0>>, <<36, 36>> >>,
     << <<-10, -5>>, <<35, 35>>, <<0, 51>> >>}
VolleyPowerUps == {"none", "EXPLOSIVE_ROUNDS", "LASER_BEAM"}

Volley(offsets, maxHealth, powerUp) ==
    LET menu == ConfirmSelection(SetState(Booted, "CharacterSelectState"))
        bx == PlayerDefaultX + PlayerW \div 2 - 2 * Unit
        by == PlayerDefaultY - 30 * BULLET_SPEED * Unit
        up == 0 - BULLET_SPEED * Unit
        impactX == bx + BulletW \div 2
        impactY == by + up + BulletH \div 2
        Placed(o) == [NewEnemy(impactX + o[1] * Unit - EnemyW \div 2, 2, maxHealth)
                         EXCEPT !.y = impactY + o[2] * Unit - EnemyH \div 2 - 2 * Unit]
        w1 == [menu EXCEPT
                 !.lastEnemySpawn = ClockStart - 100,
                 !.lastShot = ClockStart - 1000,
                 !.bullets = <<NewBullet(bx, by, 0, up),
                               NewBullet(bx + PLAYER_SPEED * Unit,
                                         by + BULLET_SPEED * Unit, 0, up)>>,
                 !.enemies = <<Placed(offsets[1]), Placed(offsets[2]),
                               Placed(offsets[3])>>]
    IN  Quiet(IF powerUp = "none" THEN w1 ELSE AddPowerUp(w1, powerUp))

InitVolley ==
    \E offsets \in VolleyOffsets, maxHealth \in {2, 4}, powerUp \in VolleyPowerUps :
        StartsAt(Volley(offsets, maxHealth, powerUp))

SpecVolley == InitVolley /\ [][NextSession]_vars

(***************************************************************************)
(* Fire requests                                                           *)
(***************************************************************************)
\* A session in play with no enemy on the screen, the last shot 150 ms ago and
\* the given power-ups collected just now.
FireEffects == {"RAPID_FIRE", "MULTI_SHOT", "LASER_BEAM"}

RECURSIVE Collected(_, _, _)
Collected(w, effects, i) ==
    IF i > Len(TypeOrder) THEN w
    ELSE IF TypeOrder[i] \in effects
         THEN Collected(AddPowerUp(w, TypeOrder[i]), effects, i + 1)
         ELSE Collected(w, effects, i + 1)

Armed(effects) ==
    LET menu == ConfirmSelection(SetState(Booted, "CharacterSelectState"))
    IN  Quiet(Collected([menu EXCEPT !.lastEnemySpawn = ClockStart - 100,
                                     !.lastShot = ClockStart - 150],
                        effects, 1))

InitFire == \E effects \in SUBSET FireEffects : StartsAt(Armed(effects))

NextFire ==
    \/ KeyDown("Space")
    \/ KeyUp("Space")
    \/ SessionFrame
    \/ Tick(FireTickSteps, MaxElapsedFire)

SpecFire == InitFire /\ [][NextFire]_vars

(***************************************************************************)
(* Moving the player on the canvas the host reports                        *)
(***************************************************************************)
\* A session in play on a canvas of the given size (in pixels), after arrow
\* keys have moved the player `steps` moves left and up (negative: right and
\* down) from where player.reset() puts it.
NearEdge(size, steps) ==
    LET menu == ConfirmSelection(SetState(Booted, "CharacterSelectState"))
    IN  Quiet([menu EXCEPT
                 !.canvas = [width |-> size[1] * Unit, height |-> size[2] * Unit],
                 !.player.x = PlayerDefaultX - steps[1] * PLAYER_SPEED * Unit,
                 !.player.y = PlayerDefaultY - steps[2] * PLAYER_SPEED * Unit,
                 !.lastEnemySpawn = ClockStart - 100])

InitMove ==
    \E size \in {<<800, 600>>, <<798, 597>>},
       steps \in {<<76, 109>>, <<-75, -2>>} :
        StartsAt(NearEdge(size, steps))

NextMove ==
    \/ \E code \in {"ArrowLeft", "ArrowRight", "ArrowUp", "ArrowDown"} : KeyDown(code)
    \/ \E code \in {"ArrowLeft", "ArrowRight", "ArrowUp", "ArrowDown"} : KeyUp(code)
    \/ SessionFrame

SpecMove == InitMove /\ [][NextMove]_vars

(***************************************************************************)
(* The frame loop when callbacks of the current state throw                *)
(***************************************************************************)
LoopFaults == {"none", "update", "render", "handleInput"}
LoopKeys == {"Enter", "Escape", "KeyR"}

LoopFrame(fault) ==
    /\ fault \in LoopFaults \ {"handleInput"}
    /\ Simulates(W) => frames < MaxFrames
    /\ \E x \in SpawnXs, speed \in EnemySpeeds, maxHealth \in EnemyHealths,
          drop \in Drops :
          LET rnd == [x |-> x, speed |-> speed, maxHealth |-> maxHealth, drop |-> drop]
          IN  Commit(Called([GameLoop(W, rnd, fault) EXCEPT
                                !.frames = IF Simulates(W) THEN @ + 1 ELSE @],
                            "frame", fault))

ApiHandleInput(fault) ==
    /\ fault \in {"none", "handleInput"}
    /\ Commit(Called(ManagerHandleInput(W, fault), "handleInput", fault))

NextLoop ==
    \/ \E code \in LoopKeys : KeyDown(code)
    \/ \E code \in LoopKeys : KeyUp(code)
    \/ \E fault \in LoopFaults \ {"handleInput"} : LoopFrame(fault)
    \/ \E fault \in {"none", "handleInput"} : ApiHandleInput(fault)
    \/ TimerFire
    \/ Tick(TickSteps, MaxElapsedGame)

SpecLoop == Init /\ [][NextLoop]_vars

(***************************************************************************)
(* The state manager's registry under arbitrary state objects              *)
(***************************************************************************)
RegistryNames == {"IntroState", "CharacterSelectState"}
RegistryObjects ==
    {"IntroState", "BaseState", "EnterThrows", "ExitThrows", "PlainObject", "null"}

ApiRegisterState(name, state) ==
    /\ name \in RegistryNames \cup {""}
    /\ Commit(Called(AddState(W, name, state), "addState", <<name, state>>))

ApiRequestState(name) ==
    /\ name \in RegistryNames \cup {"UnknownState"}
    /\ Commit(Called(SetState(W, name), "setState", name))

InitRegistry ==
    \/ StartsAt(NewManager)
    \/ StartsAt(Booted)

NextRegistry ==
    \/ \E name \in RegistryNames \cup {""}, state \in RegistryObjects :
          ApiRegisterState(name, state)
    \/ \E name \in RegistryNames \cup {"UnknownState"} : ApiRequestState(name)

SpecRegistry == InitRegistry /\ [][NextRegistry]_vars

(***************************************************************************)
(* Properties                                                              *)
(***************************************************************************)
LastLifecycle == lifecycle[Len(lifecycle)]

FlagsOff(p) == \A f \in PlayerFlags : ~p[f]

\* C1: in every reachable state lives >= 0, whatever number of enemies overlap
\* the unshielded player within one frame.
C1_LivesNeverNegative == lives >= 0

\* The ten transitions of the specification's table.
TransitionTable ==
    {<<"IntroState", "CharacterSelectState">>,
     <<"CharacterSelectState", "IntroState">>,
     <<"CharacterSelectState", "GameState">>,
     <<"GameState", "PauseState">>,
     <<"GameState", "GameOverState">>,
     <<"PauseState", "GameState">>,
     <<"PauseState", "IntroState">>,
     <<"GameOverState", "GameState">>,
     <<"GameOverState", "CharacterSelectState">>,
     <<"GameOverState", "IntroState">>}

\* C2: every change of the current state made by a frame, a click or a timer
\* callback (a swap of the current pointer from one state to a different one)
\* is one of the ten transitions of the table.
C2_OnlyTableTransitions ==
    \A i \in DOMAIN transitions :
        transitions[i][1] # transitions[i][2] => transitions[i] \in TransitionTable

\* C3: addPowerUp(type) for a type that is already in the active-effects table
\* returns true, leaves the table with the same entries (one for the type) and
\* sets the entry's endTime to the time of this call plus the type's duration.
C3_RefreshKeepsOneEntry ==
    [][(lastOp'.name = "addPowerUp" /\ lastOp'.arg \in DOMAIN activePowerUps)
         => /\ DOMAIN activePowerUps' = DOMAIN activePowerUps
            /\ activePowerUps'[lastOp'.arg].endTime
                  = now' + POWER_UP_TYPES[lastOp'.arg]
            /\ activePowerUps'[lastOp'.arg].startTime
                  = activePowerUps[lastOp'.arg].startTime
            /\ results' = <<[fn |-> "addPowerUp", ok |-> TRUE]>>]_vars

\* a refresh has run later than the first pickup of the type
C3_Refreshed ==
    /\ lastOp.name = "addPowerUp"
    /\ lastOp.arg \in DOMAIN activePowerUps
    /\ activePowerUps[lastOp.arg].startTime < now
    /\ activePowerUps[lastOp.arg].endTime = now + POWER_UP_TYPES[lastOp.arg]
    /\ hookState[lastOp.arg].calls = 0

\* C4: after clearAllPowerUps the active-effects table is empty, the seven
\* effect flags of the player are false, laserActive is false and the time-slow
\* multiplier is 1.0, whichever types were active before the call.
C4_ClearAllRestores ==
    lastOp.name = "clearAllPowerUps"
        => /\ activePowerUps = EmptyTable
           /\ FlagsOff(player)
           /\ laserActive = FALSE
           /\ timeSlowMultiplier = NormalSpeed
           /\ results = <<[fn |-> "clearAllPowerUps", ok |-> TRUE]>>

\* clearAllPowerUps has run with all six types active: it disabled each of them
C4_ClearedAllSix ==
    /\ lastOp.name = "clearAllPowerUps"
    /\ \A t \in PowerUpTypes : hookState[t].calls = 1
    /\ activePowerUps = EmptyTable

\* C5: per type, the enable and disable hook calls alternate starting with an
\* enable, so that the type's effect is on exactly while the type is in the
\* table; and one call of the manager's interface runs the hook of a type once
\* when the call puts the type into the table or takes it out, and not at all
\* otherwise (a refresh, a removal of an inactive type).
C5_HooksAlternate ==
    /\ [](\A t \in PowerUpTypes :
            hookState[t].st = IF t \in DOMAIN activePowerUps THEN "on" ELSE "off")
    /\ [][\A t \in PowerUpTypes :
            hookState'[t].calls =
                IF (t \in DOMAIN activePowerUps) # (t \in DOMAIN activePowerUps')
                THEN 1 ELSE 0]_vars

\* an expiry has disabled the shield while rapid fire, refreshed, stays on
C5_ExpiredOne ==
    /\ lastOp.name = "updatePowerUps"
    /\ hookState["SHIELD_GENERATOR"] = [st |-> "off", calls |-> 1]
    /\ hookState["RAPID_FIRE"] = [st |-> "on", calls |-> 0]
    /\ activePowerUps["RAPID_FIRE"].startTime < now

\* the session data as GameState.enter leaves it
FreshSession ==
    /\ score = 0
    /\ lives = INITIAL_LIVES
    /\ bullets = <<>> /\ enemies = <<>> /\ particles = <<>> /\ powerUps = <<>>
    /\ enemySpawnRate = INITIAL_ENEMY_SPAWN_RATE
    /\ player.x = PlayerDefaultX /\ player.y = PlayerDefaultY
    /\ activePowerUps = EmptyTable
    /\ FlagsOff(player)
    /\ laserActive = FALSE
    /\ timeSlowMultiplier = NormalSpeed

\* C6: when the last thing a handler did to the state machine was to enter
\* GameState (from the character selection, from the game-over screen or from
\* the pause), the handler leaves score 0, lives 3, no bullet, enemy, particle
\* or pickup, the initial spawn interval, the player at its default position
\* and no power-up effect active.
C6_GameEntryResets ==
    (lifecycle # <<>> /\ LastLifecycle = [op |-> "enter", st |-> "GameState"])
        => FreshSession

\* a frame resumed a session in play from the pause
C6_ResumedFromPause ==
    /\ lastOp.name = "frame"
    /\ transitions = << <<"PauseState", "GameState">> >>
    /\ currentState = "GameState"
    /\ frames > 0
    /\ storage.ship # "null"

\* C7: a frame that runs the Game state's update and ends with lives <= 0 ends
\* with GameOverState current and the final score shown equal to the score;
\* while GameOverState is current the score equals the final score shown, and
\* neither changes for as long as GameOverState stays current.
C7_GameOverKeepsScore ==
    /\ [][(lastOp'.name = "frame" /\ currentState = "GameState" /\ gameRunning
            /\ lives' <= 0)
           => (currentState' = "GameOverState" /\ finalScoreText' = score')]_vars
    /\ [](currentState = "GameOverState" => finalScoreText = score)
    /\ [][(currentState = "GameOverState" /\ currentState' = "GameOverState")
           => (score' = score /\ finalScoreText' = finalScoreText)]_vars

\* a frame of a session with points took the last life
C7_LastLifeLost ==
    /\ lastOp.name = "frame"
    /\ <<"GameState", "GameOverState">> \in SeqToSet(transitions)
    /\ currentState = "GameOverState"
    /\ lives = 0
    /\ score > 0
    /\ finalScoreText = score

\* C8: setState with a name that is not registered returns false, calls no
\* exit() and no enter(), and leaves the current state as it was.
C8_UnregisteredRejected ==
    [][(lastOp'.name = "setState" /\ ~IsRegistered(W, lastOp'.arg))
         => /\ results' = <<[fn |-> "setState", ok |-> FALSE]>>
            /\ lifecycle' = <<>>
            /\ transitions' = <<>>
            /\ currentState' = currentState]_vars

\* setState was refused for a state class that is not registered yet, while
\* another state was current
C8_Refused ==
    /\ lastOp.name = "setState"
    /\ lastOp.arg \in StateNames \ DOMAIN states
    /\ currentState \in StateNames
    /\ results = <<[fn |-> "setState", ok |-> FALSE]>>

\* C9: setState with a registered name calls exit() of the outgoing state once
\* (when there is one), then makes the named state current, then calls its
\* enter() once, in this order, and returns true.
C9_ExitSwapEnter ==
    [][(lastOp'.name = "setState" /\ IsRegistered(W, lastOp'.arg))
         => /\ lifecycle' =
                  (IF currentState = "null" THEN <<>>
                   ELSE <<[op |-> "exit", st |-> currentState]>>)
                  \o <<[op |-> "set", st |-> lastOp'.arg],
                       [op |-> "enter", st |-> lastOp'.arg]>>
            /\ transitions' = << <<currentState, lastOp'.arg>> >>
            /\ currentState' = lastOp'.arg
            /\ results' # <<>>
            /\ results'[Len(results')] = [fn |-> "setState", ok |-> TRUE]]_vars

\* setState moved the machine from one state to another one
C9_Moved ==
    /\ lastOp.name = "setState"
    /\ Len(lifecycle) = 3
    /\ lifecycle[1].op = "exit"
    /\ lifecycle[1].st # lifecycle[3].st
    /\ currentState = lifecycle[3].st

\* what C10 compares: the current state, the session data and the listeners
Observable(w) ==
    [currentState |-> w.currentState, gameRunning |-> w.gameRunning,
     score |-> w.score, lives |-> w.lives, bullets |-> w.bullets,
     enemies |-> w.enemies, particles |-> w.particles, powerUps |-> w.powerUps,
     enemySpawnRate |-> w.enemySpawnRate, player |-> w.player,
     activePowerUps |-> w.activePowerUps,
     selectedTheme |-> w.selectedTheme, selectedSpaceship |-> w.selectedSpaceship,
     previousState |-> w.previousState, finalScoreText |-> w.finalScoreText,
     startListeners |-> w.startListeners, csListeners |-> w.csListeners]

\* C10: for the current state S, setState(S) run twice in a row calls S.exit()
\* and S.enter() once per call and leaves the same current state, session data
\* and listeners as setState(S) run once.
C10_RepeatedSetStateSame ==
    \A S \in StateNames :
        (currentState = S /\ S \in DOMAIN states) =>
            LET once == SetState(W, S)
                twice == SetState(Quiet(once), S)
                calls == <<[op |-> "exit", st |-> S], [op |-> "set", st |-> S],
                           [op |-> "enter", st |-> S]>>
            IN  /\ once.lifecycle = calls
                /\ twice.lifecycle = calls
                /\ Observable(twice) = Observable(once)

\* C11: addState with a name that is already registered returns false and
\* leaves the state object registered under that name in place; addState with
\* an object that is not a State returns false and leaves the registry as it was.
C11_DuplicateOrNonStateRejected ==
    [][lastOp'.name = "addState" =>
         LET name == lastOp'.arg[1]
             state == lastOp'.arg[2]
             refused == /\ results' = <<[fn |-> "addState", ok |-> FALSE]>>
                        /\ states' = states
         IN  /\ (name \in DOMAIN states => refused)
             /\ (state \notin StateObjects => refused)]_vars

C14_ExitDetachesListeners ==
    [][/\ (currentState' # "IntroState" => startListeners' = 0)
       /\ (currentState' # "CharacterSelectState" => csListeners' = 0)
       /\ startListeners' <= 1
       /\ csListeners' <= 1
       /\ (lastOp'.name = "click" =>
              /\ pendingTimers' <= pendingTimers + 1
              /\ Len(transitions') <= 1)]_vars

\* C15: once initializeStateManager has succeeded IntroState is current, and in
\* every later state exactly one of the five registered state objects is
\* current: the pointer is never null and never an object outside the registry.
C15_OneRegisteredStateCurrent ==
    /\ Booted.currentState = "IntroState"
    /\ DOMAIN states = StateNames
    /\ currentState # "null"
    /\ Cardinality({n \in DOMAIN states : states[n] = currentState}) = 1

\* the machine has left the Intro state and has come back to it
C15_BackInIntro ==
    /\ currentState = "IntroState"
    /\ transitions # <<>>
    /\ transitions[1][1] # "null"
    /\ DOMAIN states = StateNames

\* C16: in every reachable state the enemy spawn interval is at least
\* MIN_ENEMY_SPAWN_RATE, however many enemies have been spawned.
C16_SpawnRateFloor == enemySpawnRate >= MIN_ENEMY_SPAWN_RATE

\* two enemies were spawned in this run and the interval is at the floor: the
\* second one was spawned with the interval at the floor already
C16_SpawnedAtFloor ==
    /\ enemySpawnRate = MIN_ENEMY_SPAWN_RATE
    /\ lastEnemySpawn = now
    /\ Cardinality({i \in DOMAIN enemies : enemies[i].y < 0}) >= 2

\* whether the last handler entered the Game state
EnteredGame(log) ==
    \E i \in DOMAIN log : log[i] = [op |-> "enter", st |-> "GameState"]

\* C17: within a session the spawn interval never increases from one frame to
\* the next; a frame that spawns an enemy shortens it by SPAWN_RATE_DECREASE
\* when it was above the floor, and every other step leaves it as it was.
C17_SpawnRateSteps ==
    [][~EnteredGame(lifecycle') =>
         /\ enemySpawnRate' <= enemySpawnRate
         /\ enemySpawnRate' =
               IF lastOp'.name = "frame" /\ lastEnemySpawn' # lastEnemySpawn
                  /\ enemySpawnRate > MIN_ENEMY_SPAWN_RATE
               THEN enemySpawnRate - SPAWN_RATE_DECREASE
               ELSE enemySpawnRate]_vars

\* the first enemy of a session was spawned by the frame that just ran
C17_FirstSpawn ==
    /\ lastOp.name = "frame"
    /\ lastEnemySpawn = now
    /\ enemySpawnRate = INITIAL_ENEMY_SPAWN_RATE - SPAWN_RATE_DECREASE

\* how many enemies the last handler removed for the given reason
RemovedFor(log, why) == Cardinality({i \in DOMAIN log : log[i].why = why})

\* C18: within a session the score never decreases, and a step changes it by
\* KILL_SCORE for each enemy it removed because its health reached zero; an
\* enemy removed at the bottom edge, at the player or at the shield has health
\* left and adds nothing.
C18_ScoreCountsKills ==
    [][~EnteredGame(lifecycle') =>
         /\ score' >= score
         /\ score' = score + KILL_SCORE * RemovedFor(removed', "destroyed")
         /\ \A i \in DOMAIN removed' :
               (removed'[i].why = "destroyed") <=> (removed'[i].health = 0)]_vars

\* the frame that just ran shot an enemy; before it one enemy had left through
\* the bottom edge and one had rammed the player, and the kill is all the score
C18_OneKillScored ==
    /\ lastOp.name = "frame"
    /\ RemovedFor(removed, "destroyed") = 1
    /\ score = KILL_SCORE
    /\ lives = INITIAL_LIVES - 1
    /\ frames >= 2

\* C19: for maxHealth in 2..4, N hits of 1 damage leave
\* currentHealth = max(0, maxHealth - N); an enemy a hit removes from the list
\* has health 0, and no enemy with health 0 stays in the list.
C19_HitsCountDown ==
    /\ \A maxHealth \in 2..4, n \in 0..MaxHits :
          Hits(NewEnemy(0, 1, maxHealth), n).currentHealth =
              IF maxHealth - n > 0 THEN maxHealth - n ELSE 0
    /\ [](\A i \in DOMAIN enemies : enemies[i].currentHealth > 0)
    /\ [][\A i \in DOMAIN removed' :
              removed'[i].why = "destroyed" => removed'[i].health = 0]_vars

\* the fourth single bullet removed an enemy of maxHealth 4, which the three
\* hits before had left in the list
C19_FourthHitKilled ==
    /\ lastOp.name = "frame"
    /\ ~player.explosiveRoundsActive
    /\ frames = 4
    /\ \E i \in DOMAIN removed :
          removed[i] = [why |-> "destroyed", health |-> 0, maxHealth |-> 4]

\* C20: an enemy's health bar is visible only if its health is below its
\* maxHealth.
C20_BarOnlyWhenDamaged ==
    \A i \in DOMAIN enemies :
        enemies[i].healthBarVisible => enemies[i].currentHealth < enemies[i].maxHealth

\* a frame hit an undamaged enemy, which now shows its bar
C20_BarShownAfterHit ==
    /\ lastOp.name = "frame"
    /\ frames = 1
    /\ \E i \in DOMAIN enemies :
          /\ enemies[i].healthBarVisible
          /\ enemies[i].currentHealth = enemies[i].maxHealth - 1
          /\ enemies[i].x = PlayerDefaultX

\* C21: whatever arrow keys were held in whatever frames, the player stays on
\* the canvas the host reports: 0 <= player.x <= canvas.width - player.width
\* and 0 <= player.y <= canvas.height - player.height.
C21_PlayerStaysOnCanvas ==
    currentState = "GameState" =>
        /\ 0 <= player.x
        /\ player.x <= canvas.width - PlayerW
        /\ 0 <= player.y
        /\ player.y <= canvas.height - PlayerH

\* the cooldown the claims state: a quarter of SHOOT_COOLDOWN while Rapid Fire
\* is active, SHOOT_COOLDOWN otherwise
StatedCooldown ==
    IF "RAPID_FIRE" \in DOMAIN activePowerUps THEN SHOOT_COOLDOWN \div 4
    ELSE SHOOT_COOLDOWN

\* a frame of the Game state that finds the fire key down
FireRequest ==
    /\ lastOp'.name = "frame"
    /\ currentState = "GameState"
    /\ gameRunning
    /\ "Space" \in keys

\* C22: after a shot at time t a fire request at t + cooldown or later is
\* honoured (it sets lastShot) and a request before t + cooldown is dropped,
\* where cooldown is SHOOT_COOLDOWN / 4 with Rapid Fire and SHOOT_COOLDOWN
\* without.
C22_CooldownBoundary ==
    [][FireRequest =>
         IF now - lastShot >= StatedCooldown
         THEN lastShot' = now
         ELSE lastShot' = lastShot /\ Len(bullets') = Len(bullets)]_vars

\* the bullets the step appended to the list
NewBullets == SubSeq(bullets', Len(bullets) + 1, Len(bullets'))

\* C23: a honoured fire request creates no bullet while Laser Beam is active
\* (with or without Multi-Shot), three bullets, one straight and two angled to
\* either side, while Multi-Shot is active and Laser Beam is not, and one
\* straight bullet otherwise.
C23_BulletsPerPattern ==
    [][(FireRequest /\ lastShot' # lastShot) =>
         IF "LASER_BEAM" \in DOMAIN activePowerUps
         THEN Len(NewBullets) = 0
         ELSE IF "MULTI_SHOT" \in DOMAIN activePowerUps
         THEN /\ Len(NewBullets) = 3
              /\ \E i, j, k \in 1..3 :
                    /\ {i, j, k} = 1..3
                    /\ NewBullets[i].velX = 0
                    /\ NewBullets[j].velX < 0
                    /\ NewBullets[k].velX > 0
         ELSE /\ Len(NewBullets) = 1
              /\ NewBullets[1].velX = 0]_vars

\* a fire request was honoured with Laser Beam and Multi-Shot both active, and
\* there is no bullet
C23_LaserOverSpread ==
    /\ lastOp = [name |-> "frame", arg |-> "fire"]
    /\ lastShot = now
    /\ {"LASER_BEAM", "MULTI_SHOT"} \subseteq DOMAIN activePowerUps
    /\ bullets = <<>>

\* C24: a fire request made before the cooldown has passed leaves lastShot as
\* it was and adds no bullet; every frame that finds the fire key flag set
\* clears it, and a frame that finds it clear fires nothing.
C24_DroppedNotBuffered ==
    [][/\ FireRequest => "Space" \notin keys'
       /\ (FireRequest /\ now - lastShot < StatedCooldown) =>
              (lastShot' = lastShot /\ Len(bullets') = Len(bullets))
       /\ (lastOp'.name = "frame" /\ "Space" \notin keys) =>
              (lastShot' = lastShot /\ Len(bullets') <= Len(bullets))]_vars

\* a fire request made 25 ms after a shot was dropped: the one bullet of that
\* shot is the only one
C24_RequestDropped ==
    /\ lastOp = [name |-> "frame", arg |-> "fire"]
    /\ now - lastShot = 25
    /\ lastShot >= ClockStart
    /\ "Space" \notin keys
    /\ Len(bullets) = 1

\* ceil(1 + 2 * (1 - d / 50)) for d <= 50 and 0 beyond, from the squared
\* distance in the model's unit: 3 below 25 px, 2 from 25 px to below 50 px,
\* 1 at 50 px
StatedDamage(distSq) ==
    LET Sq(px) == (px * Unit) * (px * Unit) IN
    IF distSq > Sq(50) THEN 0
    ELSE IF distSq = Sq(50) THEN 1
    ELSE IF distSq >= Sq(25) THEN 2
    ELSE 3

\* C25: the damage an explosion applies to an enemy is 0 beyond 50 px from the
\* impact point and ceil(1 + 2 * (1 - d / 50)), within 1..3, up to 50 px; the
\* enemy's health drops by it (not below zero), and of two enemies of one
\* explosion pass the nearer never takes less.
C25_ExplosionDamageFalloff ==
    \A i \in DOMAIN hits :
        hits[i].by = "explosion" =>
            /\ hits[i].damage = StatedDamage(hits[i].distSq)
            /\ hits[i].damage \in 0..3
            /\ hits[i].after = IF hits[i].before > hits[i].damage
                               THEN hits[i].before - hits[i].damage ELSE 0
            /\ \A j \in DOMAIN hits :
                  (hits[j].by = "explosion" /\ hits[i].distSq <= hits[j].distSq)
                      => hits[i].damage >= hits[j].damage

\* one explosion met an enemy at its centre, one 25 px away and one 60 px
\* away: the first took 3, the second 2, the third none
C25_NearMidFar ==
    /\ player.explosiveRoundsActive
    /\ \E i, j, k \in DOMAIN hits :
          /\ hits[i].distSq = 0 /\ hits[i].damage = 3
          /\ hits[j].distSq = (25 * Unit) * (25 * Unit) /\ hits[j].damage = 2
          /\ hits[k].distSq = (60 * Unit) * (60 * Unit) /\ hits[k].damage = 0
          /\ hits[k].after = hits[k].before

\* the least place of a non-empty set of places in a list
FirstOf(places) == CHOOSE k \in places : \A m \in places : k <= m

\* C26: without Explosive Rounds a bullet that overlaps several enemies damages
\* exactly one of them, by 1: the one that comes first in the enemies list.
C26_FirstOverlappingEnemyHit ==
    \A i \in DOMAIN hits :
        hits[i].by = "bullet" =>
            /\ hits[i].damage = 1
            /\ hits[i].at \in hits[i].among
            /\ hits[i].at = FirstOf(hits[i].among)

\* a frame of the Game state in play
PlayFrame == lastOp'.name = "frame" /\ currentState = "GameState" /\ gameRunning

ShieldOn == "SHIELD_GENERATOR" \in DOMAIN activePowerUps

\* C27: after a frame in play no enemy overlaps the player; with the Shield
\* Generator effect active through the frame every enemy removed at the
\* player is deflected and lives are unchanged, and the score changes only by
\* the kills; with the effect not active every one of them costs one life.
C27_ShieldDeflectsElseOneLifeEach ==
    [][PlayFrame =>
         /\ \A i \in DOMAIN enemies' :
               ~Overlaps(enemies'[i].x, enemies'[i].y, EnemyW, EnemyH,
                         player'.x, player'.y, PlayerW, PlayerH)
         /\ (ShieldOn /\ now < activePowerUps["SHIELD_GENERATOR"].endTime) =>
               /\ RemovedFor(removed', "collided") = 0
               /\ lives' = lives
               /\ score' = score + KILL_SCORE * RemovedFor(removed', "destroyed")
         /\ ~ShieldOn =>
               /\ RemovedFor(removed', "deflected") = 0
               /\ lives' = lives - RemovedFor(removed', "collided")]_vars

\* the shield deflected three or more enemies in one frame and no life was lost
C27_ColumnDeflected ==
    /\ lastOp.name = "frame"
    /\ ShieldOn
    /\ RemovedFor(removed, "deflected") >= 3
    /\ lives = INITIAL_LIVES

\* C28: a shield whose end time is not after the frame's clock time has
\* expired before the collision pass, and a shield collected in the frame is
\* not yet on during it: in both cases every enemy removed at the player costs
\* one life and none is deflected.
C28_ExpiryBeforeCollisionsPickupAfter ==
    [][PlayFrame =>
         /\ (ShieldOn /\ activePowerUps["SHIELD_GENERATOR"].endTime <= now) =>
               /\ RemovedFor(removed', "deflected") = 0
               /\ lives' = lives - RemovedFor(removed', "collided")
         /\ (~ShieldOn /\ "SHIELD_GENERATOR" \in DOMAIN activePowerUps') =>
               /\ RemovedFor(removed', "deflected") = 0
               /\ lives' = lives - RemovedFor(removed', "collided")]_vars

\* the shield pickup was collected in the frame in which enemies reached the
\* player, and they cost lives
C28_CollectedTooLate ==
    /\ lastOp.name = "frame"
    /\ ShieldOn
    /\ activePowerUps["SHIELD_GENERATOR"].endTime
           = now + POWER_UP_TYPES["SHIELD_GENERATOR"]
    /\ player.shieldActive
    /\ RemovedFor(removed, "collided") >= 1
    /\ lives < INITIAL_LIVES

\* the overlap test of checkLaserCollisions: the enemy against the strip of
\* the laser's width from the top of the canvas down to the player
InBeam(enemy, p) ==
    Overlaps(enemy.x, enemy.y, EnemyW, EnemyH,
             p.x + PlayerW \div 2 - (LASER_WIDTH * Unit) \div 2, 0,
             LASER_WIDTH * Unit, p.y)

\* C29: in a frame of the Game state in play through which the Laser Beam
\* effect is active, and in which no bullet strikes and no enemy is spawned or
\* removed, every enemy that overlaps the beam loses the laser's damage.
C29_LaserDamagesEnemiesInBeam ==
    [][(/\ PlayFrame
        /\ "LASER_BEAM" \in DOMAIN activePowerUps
        /\ now < activePowerUps["LASER_BEAM"].endTime
        /\ laserActive /\ laserBeam = "active"
        /\ hits' = <<>> /\ removed' = <<>>
        /\ Len(enemies') = Len(enemies)) =>
          \A i \in DOMAIN enemies :
              (InBeam(enemies'[i], player') /\ enemies[i].currentHealth > LASER_DAMAGE)
                  => enemies'[i].currentHealth
                         = enemies[i].currentHealth - LASER_DAMAGE]_vars

\* CharacterSelectState.enter() ran in the step and the state is still current
EnteredSelection ==
    /\ currentState' = "CharacterSelectState"
    /\ \E i \in DOMAIN lifecycle' :
          lifecycle'[i] = [op |-> "enter", st |-> "CharacterSelectState"]

\* C30: sessionStorage changes only when a confirmSelection() succeeds, which
\* writes the selected theme and ship; and every CharacterSelect enter() that
\* finds a saved pair starts with that theme and that ship selected, whatever
\* was selected before it.
C30_ConfirmedSelectionRestored ==
    [][/\ storage' # storage =>
            /\ currentState = "CharacterSelectState"
            /\ selectedTheme' # "null" /\ selectedSpaceship' # "null"
            /\ storage' = [theme |-> selectedTheme', ship |-> selectedSpaceship']
       /\ (EnteredSelection /\ storage'.theme # "null") =>
            /\ selectedTheme' = storage'.theme
            /\ selectedSpaceship' = storage'.ship
            /\ ThemeNames[currentThemeIndex' + 1] = storage'.theme]_vars

\* the second enter() since the page was loaded restored the confirmed pair
\* godzilla / kaiju-2, which is not the pair of any initial state
C30_RestoredAfterBack ==
    /\ lastOp.name = "timer"
    /\ currentState = "CharacterSelectState"
    /\ csListeners = 2
    /\ storage = [theme |-> "godzilla", ship |-> "kaiju-2"]
    /\ selectedTheme = "godzilla"
    /\ selectedSpaceship = "kaiju-2"

\* C31: every CharacterSelect enter() that finds sessionStorage empty ends with
\* the first theme and its first ship selected, and every enter() that finds a
\* stored ship that is no ship of the stored theme ends with the first ship of
\* the selected theme selected.
C31_DefaultsOnEnter ==
    [][EnteredSelection =>
         /\ (storage'.theme = "null" /\ storage'.ship = "null") =>
               /\ selectedTheme' = ThemeNames[1]
               /\ selectedSpaceship' = THEME_CONFIGS[ThemeNames[1]][1]
         /\ (/\ ThemeExists(storage'.theme)
             /\ storage'.ship # "null"
             /\ ~ShipExists(storage'.theme, storage'.ship)) =>
               selectedSpaceship' = THEME_CONFIGS[selectedTheme'][1]]_vars

\* C32: a step that takes the machine from CharacterSelect to Game leaves a theme
\* and a ship selected, the ship being one of the ships of that theme, and the
\* pair it leaves in sessionStorage is that theme with that ship.
C32_ConfirmOnlyOwnShip ==
    [][(\E i \in DOMAIN transitions' :
           transitions'[i] = <<"CharacterSelectState", "GameState">>) =>
         /\ ThemeExists(selectedTheme')
         /\ selectedSpaceship' # "null"
         /\ ShipExists(selectedTheme', selectedSpaceship')
         /\ ShipExists(storage'.theme, storage'.ship)
         /\ storage' = [theme |-> selectedTheme', ship |-> selectedSpaceship']]_vars

\* a confirm click started the game with ultraman / ultra-3, a pair that was
\* browsed to and that no initial sessionStorage holds
C32_BrowsedPairConfirmed ==
    /\ lastOp.name = "click"
    /\ currentState = "GameState"
    /\ \E i \in DOMAIN transitions :
          transitions[i] = <<"CharacterSelectState", "GameState">>
    /\ storage = [theme |-> "ultraman", ship |-> "ultra-3"]

\* C33: a call of addPowerUp with a type that is none of the six returns false
\* and leaves the table of active effects, the player and the time-slow
\* multiplier as they were; and a frame in play that collects a pickup of such a
\* type completes (update returns, the frame is counted, the pickup is gone)
\* with that addPowerUp returning false, no entry added to the table and no
\* player flag turned on.
C33_UnknownTypeRejected ==
    [][/\ (lastOp'.name = "addPowerUp" /\ lastOp'.arg \notin PowerUpTypes) =>
            /\ results' = <<[fn |-> "addPowerUp", ok |-> FALSE]>>
            /\ activePowerUps' = activePowerUps
            /\ player' = player
            /\ timeSlowMultiplier' = timeSlowMultiplier
       /\ (/\ PlayFrame
           /\ Len(powerUps) = 1 /\ powerUps[1].type \notin PowerUpTypes
           /\ powerUps' = <<>>
           /\ \E i \in DOMAIN results' : results'[i].fn = "addPowerUp") =>
            /\ \A i \in DOMAIN results' :
                  results'[i].ok = (results'[i].fn # "addPowerUp")
            /\ \E i \in DOMAIN results' : results'[i] = [fn |-> "update", ok |-> TRUE]
            /\ frames' = frames + 1
            /\ \A t \in DOMAIN activePowerUps' :
                  t \in DOMAIN activePowerUps /\ activePowerUps'[t] = activePowerUps[t]
            /\ \A f \in PlayerFlags : player'[f] => player[f]
            /\ timeSlowMultiplier' = timeSlowMultiplier]_vars

\* the player flag each type's hook writes
FlagOf ==
    [RAPID_FIRE |-> "rapidFireActive", MULTI_SHOT |-> "multiShotActive",
     LASER_BEAM |-> "laserBeamActive", SHIELD_GENERATOR |-> "shieldActive",
     TIME_SLOW |-> "timeSlowActive", EXPLOSIVE_ROUNDS |-> "explosiveRoundsActive"]

\* the effect of a type is off: its flag, and what else its hook switches
Neutral(type, p, laser, multiplier) ==
    /\ ~p[FlagOf[type]]
    /\ type = "SHIELD_GENERATOR" => ~p.invincible
    /\ type = "LASER_BEAM" => ~laser
    /\ type = "TIME_SLOW" => multiplier = NormalSpeed

\* C34: a frame that runs the Game state's update at clock time t leaves no
\* effect in the table whose end time is t or earlier, and every type that was
\* in the table with such an end time and is no longer in it has its effect
\* off; the expiry check removes exactly the effects that had such an end time,
\* so that an effect with a later end time stays in the table with its end time
\* unless the frame leaves the Game state.
C34_ExpiredRemovedOthersKept ==
    [][PlayFrame =>
         /\ \A t \in DOMAIN activePowerUps' : activePowerUps'[t].endTime > now'
         /\ \A t \in DOMAIN activePowerUps :
               (activePowerUps[t].endTime <= now /\ t \notin DOMAIN activePowerUps')
                   => Neutral(t, player', laserActive', timeSlowMultiplier')
         /\ Cardinality({i \in DOMAIN results' : results'[i].fn = "removePowerUp"})
               = Cardinality({t \in DOMAIN activePowerUps :
                                 activePowerUps[t].endTime <= now})
         /\ \A t \in DOMAIN activePowerUps :
               (activePowerUps[t].endTime > now /\ transitions' = <<>>) =>
                   /\ t \in DOMAIN activePowerUps'
                   /\ activePowerUps'[t].endTime >= activePowerUps[t].endTime]_vars

\* a frame at the instant of the shield's end time removed the shield and kept
\* rapid fire, which ends later
C34_ShieldExpiredRapidFireKept ==
    /\ lastOp.name = "frame"
    /\ currentState = "GameState"
    /\ results = <<[fn |-> "removePowerUp", ok |-> TRUE]>>
    /\ hookState["SHIELD_GENERATOR"] = [st |-> "off", calls |-> 1]
    /\ ~player.shieldActive /\ ~player.invincible
    /\ "RAPID_FIRE" \in DOMAIN activePowerUps
    /\ now = activePowerUps["RAPID_FIRE"].startTime + POWER_UP_TYPES["SHIELD_GENERATOR"]

\* what C35 says stays as it is, between two records of the state
SameSession(a, b) ==
    /\ a.score = b.score
    /\ a.lives = b.lives
    /\ a.player.x = b.player.x /\ a.player.y = b.player.y
    /\ a.bullets = b.bullets
    /\ a.enemies = b.enemies
    /\ a.particles = b.particles
    /\ a.powerUps = b.powerUps

\* C35: for as long as PauseState stays current, score, lives, the player's
\* position and the lists of bullets, enemies, particles and pickups stay as
\* they are; a frame of the Game state that enters PauseState leaves them as
\* they were when its handleInput() had entered PauseState; and the machine
\* never goes from PauseState to GameOverState.
C35_FrozenWhilePaused ==
    [][/\ (currentState = "PauseState" /\ currentState' = "PauseState") =>
            SameSession([score |-> score', lives |-> lives', player |-> player',
                         bullets |-> bullets', enemies |-> enemies',
                         particles |-> particles', powerUps |-> powerUps'], W)
       /\ (PlayFrame /\ GameHandleInput(W).currentState = "PauseState") =>
            SameSession([score |-> score', lives |-> lives', player |-> player',
                         bullets |-> bullets', enemies |-> enemies',
                         particles |-> particles', powerUps |-> powerUps'],
                        GameHandleInput(W))
       /\ \A i \in DOMAIN transitions' :
            transitions'[i] # <<"PauseState", "GameOverState">>]_vars

\* C36: the deferred callback of a start action takes the machine from Intro to
\* CharacterSelect, in one transition, when Intro is current as it fires, and
\* changes nothing of the state machine when another state is current: it calls
\* no exit() and no enter() and leaves the current state current.
C36_CallbackOnlyLeavesIntro ==
    [][lastOp'.name = "timer" =>
         IF currentState = "IntroState"
         THEN /\ transitions' = << <<"IntroState", "CharacterSelectState">> >>
              /\ currentState' = "CharacterSelectState"
         ELSE /\ transitions' = <<>>
              /\ lifecycle' = <<>>
              /\ currentState' = currentState]_vars

\* the calls of one callback of one state in a lifecycle log
CallsOf(log, op, st) ==
    Cardinality({i \in DOMAIN log : log[i] = [op |-> op, st |-> st]})

\* C37: a frame of the Game state in play that takes lives to 0 calls
\* GameOverState.enter() once and GameOverState.exit() not at all; and
\* GameOverState.exit() is only called by a frame that starts with GameOverState
\* current and the restart, character-select or main-menu key held.
C37_GameOverEnteredOnce ==
    [][/\ (PlayFrame /\ lives > 0 /\ lives' <= 0) =>
            /\ CallsOf(lifecycle', "enter", "GameOverState") = 1
            /\ CallsOf(lifecycle', "exit", "GameOverState") = 0
       /\ CallsOf(lifecycle', "exit", "GameOverState") > 0 =>
            /\ lastOp'.name = "frame"
            /\ currentState = "GameOverState"
            /\ keys \cap {"KeyR", "KeyC", "KeyM"} # {}]_vars

\* C38: after every handler, each of the six types has its player flag on
\* exactly when the type is in the table of active effects, laserActive is on
\* exactly when LASER_BEAM is in the table, and the time-slow multiplier is 0.5
\* when TIME_SLOW is in the table and 1.0 when it is not.
C38_FlagsMatchTable ==
    /\ \A t \in PowerUpTypes : player[FlagOf[t]] = (t \in DOMAIN activePowerUps)
    /\ laserActive = ("LASER_BEAM" \in DOMAIN activePowerUps)
    /\ timeSlowMultiplier
          = IF "TIME_SLOW" \in DOMAIN activePowerUps THEN SlowSpeed ELSE NormalSpeed

\* the game is paused with Time Slow collected and Rapid Fire run out
C38_PausedWithTimeSlow ==
    /\ lastOp.name = "frame"
    /\ currentState = "PauseState"
    /\ DOMAIN activePowerUps = {"TIME_SLOW"}
    /\ player.timeSlowActive /\ ~player.rapidFireActive
    /\ timeSlowMultiplier = SlowSpeed
    /\ hookState["RAPID_FIRE"].st = "off"

\* a frame of the Game state in play, with Explosive Rounds active, in which
\* one bullet struck and nothing else added or removed an enemy or a bullet
OneExplosion ==
    /\ PlayFrame
    /\ lastOp'.arg # "fire"
    /\ player.explosiveRoundsActive /\ player'.explosiveRoundsActive
    /\ Len(bullets') = Len(bullets) - 1
    /\ lastEnemySpawn' = lastEnemySpawn
    /\ \A i \in DOMAIN removed' : removed'[i].why = "destroyed"

\* C39: in such a frame the explosion examines every enemy of the list once,
\* at the health the enemy had before the frame; an enemy within 50 px loses
\* 1 to 3 health once, an enemy further away keeps its health and its health
\* bar; the enemies left are those with health left, in their order; each
\* enemy destroyed is removed once and adds 10 to the score; and the frame
\* removes one bullet.
C39_ExplosionStrikesEachOnce ==
    [][OneExplosion =>
         LET n == Len(enemies)
             H(k) == hits'[n - k + 1]
             kept == {k \in 1..n : H(k).after > 0}
             Pos(k) == Cardinality({m \in kept : m <= k})
             reach == (EXPLOSION_RADIUS * Unit) * (EXPLOSION_RADIUS * Unit)
         IN  /\ Len(hits') = n
             /\ \A k \in 1..n :
                   /\ H(k).by = "explosion" /\ H(k).at = k
                   /\ H(k).before = enemies[k].currentHealth
                   /\ H(k).distSq <= reach =>
                         /\ H(k).damage \in 1..3
                         /\ H(k).after = IF H(k).before > H(k).damage
                                         THEN H(k).before - H(k).damage ELSE 0
                   /\ H(k).distSq > reach =>
                         H(k).damage = 0 /\ H(k).after = H(k).before
             /\ Len(enemies') = Cardinality(kept)
             /\ \A k \in kept :
                   /\ enemies'[Pos(k)].currentHealth = H(k).after
                   /\ enemies'[Pos(k)].maxHealth = enemies[k].maxHealth
                   /\ enemies'[Pos(k)].x = enemies[k].x
                   /\ H(k).damage = 0 =>
                         enemies'[Pos(k)].healthBarVisible = enemies[k].healthBarVisible
             /\ Len(removed') = n - Cardinality(kept)
             /\ score' = score + KILL_SCORE * (n - Cardinality(kept))]_vars

\* one explosion destroyed two of three enemies, damaged none of the third,
\* which was out of reach, and took one of the two bullets
C39_TwoDestroyedOneOutOfReach ==
    /\ lastOp = [name |-> "frame", arg |-> ""]
    /\ player.explosiveRoundsActive
    /\ Len(hits) = 3
    /\ \A i \in DOMAIN hits : hits[i].by = "explosion"
    /\ Len(removed) = 2
    /\ \A i \in DOMAIN removed : removed[i].why = "destroyed"
    /\ score = 2 * KILL_SCORE
    /\ Len(enemies) = 1 /\ enemies[1].currentHealth = enemies[1].maxHealth
    /\ Len(bullets) = 1

\* C13: setState either completes (exit() of the outgoing state, pointer swap,
\* enter() of the incoming state, returns true) or returns false with the same
\* current state as before the call, also when exit() or enter() threw.
C13_SetStateAtomic ==
    [][lastOp'.name = "setState" =>
         LET returned == results'[Len(results')]
             newState == states[lastOp'.arg]
         IN  /\ results' # <<>>
             /\ returned.fn = "setState"
             /\ IF returned.ok
                THEN /\ currentState' = newState
                     /\ lifecycle' =
                          (IF currentState = "null" THEN <<>>
                           ELSE <<[op |-> "exit", st |-> currentState]>>)
                          \o <<[op |-> "set", st |-> newState],
                               [op |-> "enter", st |-> newState]>>
                ELSE currentState' = currentState]_vars

====
